---- MODULE Spec2Model ----
(***************************************************************************)
(* CloverQuery: card-expiration classification and customer prioritisation *)
(*                                                                         *)
(* Time is a single timeline of ticks, TicksPerDay ticks to the day (the   *)
(* code counts milliseconds, 1000*3600*24 to the day).  The server process *)
(* runs in a fixed-offset zone (UTC), so a local midnight is a multiple of *)
(* TicksPerDay and every local day has TicksPerDay ticks.                  *)
(*                                                                         *)
(* Strings are sequences of one-character strings.  JavaScript numbers     *)
(* that can be NaN (or null after a JSON round trip) are records           *)
(* [k |-> "num" | "nan" | "null", v |-> Int].                              *)
(***************************************************************************)
EXTENDS Integers, Sequences, FiniteSets, TLC

VARIABLES
  now,            \* the current instant (new Date(), Date.now())
  expCode,        \* expirationDate of the card handed to the analyzer
  analysis,       \* what analyzeCardExpiration returned for it
  loaderAnalysis, \* what the loader's cardAnalysis returned for it
  dbCustomers,    \* rows of the customers table joined with metadata
  dbCards,        \* rows of the cards table, in rowid order
  response,       \* customers of the last /api/customers response
  view,           \* the last rendered customer list (main page or print)
  clientCustomer, \* the platform customer handed to ClientStatusAnalyzer
  clientAnalysis, \* the expirationAnalysis handed over with it
  clientStatus,   \* what analyzeClientStatus returned
  population,     \* the customers handed to analyzeCustomers
  classified,     \* what analyzeCustomers returned for them
  summary,        \* what generateSummary returned
  statused,       \* what analyzeCustomersWithStatus returned
  actionList,     \* what getCustomersRequiringAction returned
  upstream,       \* the customers each platform merchant account holds
  syncDb,         \* the customers and cards tables the sync writes
  syncLog,        \* the last sync run: who failed, what was returned
  syncResponse,   \* what /api/customers returned from the synced tables
  printed         \* the print view opened from the main page

VARIABLES
  sinceRow,   \* the customer row whose customerSince is read
  sinceAges   \* what each reader of customerSince made of it

sinceVars == <<sinceRow, sinceAges>>

VARIABLES
  workflow   \* the sync-and-email run: position, commands run, results, exit status

flowVars == <<workflow>>

VARIABLES
  recovery   \* a health check of the monitor script and the restarts it makes

recoveryVars == <<recovery>>

VARIABLES
  lockFile,  \* content of the lock file: a PID, or 0 when there is no file
  monitors   \* the invocations of the monitor command, by PID

lockVars == <<lockFile, monitors>>

VARIABLES
  rateClock,        \* Date.now() of the client process, in milliseconds
  lastRequestTime,  \* CloverClient.lastRequestTime
  calls,            \* the makeRequest calls on the client
  requests          \* start times of the HTTP requests, in order

rateVars == <<rateClock, lastRequestTime, calls, requests>>

VARIABLES
  globalCache,  \* the entries of globalCache, by key
  cacheCalls,   \* the withCache calls in progress or returned
  cacheSource   \* what the wrapped fetch would return now, by key

cacheVars == <<globalCache, cacheCalls, cacheSource>>

VARIABLES
  lastSync,  \* what the last syncAllCustomers run fetched, stored and returned
  runs       \* the syncAllCustomers runs of this server process

serverVars == <<lastSync, runs>>

VARIABLES
  paging   \* the page loop of one merchant: offset, allCustomers, hasMore

pagingVars == <<paging>>

cardVars == <<expCode, analysis, loaderAnalysis>>

pageVars == <<dbCustomers, dbCards, response, view>>

clientVars == <<clientCustomer, clientAnalysis, clientStatus>>

popVars == <<population, classified, summary, statused, actionList>>

syncVars == <<upstream, syncDb, syncLog, syncResponse>>

vars == <<now, expCode, analysis, loaderAnalysis, dbCustomers, dbCards,
          response, view, clientCustomer, clientAnalysis, clientStatus,
          population, classified, summary, statused, actionList,
          upstream, syncDb, syncLog, syncResponse, printed,
          sinceRow, sinceAges,
          workflow,
          recovery,
          lockFile, monitors,
          rateClock, lastRequestTime, calls, requests,
          globalCache, cacheCalls, cacheSource,
          lastSync, runs,
          paging>>

-----------------------------------------------------------------------------
(* Bounds of the model                                                     *)

TicksPerDay == 2
WindowDays == 100
MaxCards == 2

-----------------------------------------------------------------------------
(* JavaScript numbers                                                      *)

Num(n) == [k |-> "num", v |-> n]
NaN == [k |-> "nan", v |-> 0]
JsNull == [k |-> "null", v |-> 0]

IsNum(x) == x.k = "num"

\* a - b, a + b on JS numbers: NaN is contagious
Minus(a, b) == IF IsNum(a) /\ IsNum(b) THEN Num(a.v - b.v) ELSE NaN
Plus(a, b) == IF IsNum(a) /\ IsNum(b) THEN Num(a.v + b.v) ELSE NaN

\* a < n, a <= n for a JS number a and an integer n: false when a is NaN
LtInt(a, n) == IsNum(a) /\ a.v < n
LeInt(a, n) == IsNum(a) /\ a.v <= n

\* Math.ceil(a / d) for an integer-valued a and d > 0
CeilDiv(a, d) == IF IsNum(a) THEN Num(-((-a.v) \div d)) ELSE NaN

-----------------------------------------------------------------------------
(* Strings and parseInt                                                    *)

Digits == {"0", "1", "2", "3", "4", "5", "6", "7", "8", "9"}

DigitVal(c) ==
  CASE c = "0" -> 0 [] c = "1" -> 1 [] c = "2" -> 2 [] c = "3" -> 3
    [] c = "4" -> 4 [] c = "5" -> 5 [] c = "6" -> 6 [] c = "7" -> 7
    [] c = "8" -> 8 [] c = "9" -> 9

Min(a, b) == IF a < b THEN a ELSE b

\* String.prototype.substring(from, to) with 0-based, clamped indices
Substring(s, from, to) ==
  LET f == Min(from, Len(s))
      t == Min(to, Len(s))
  IN  IF f >= t THEN <<>> ELSE SubSeq(s, f + 1, t)

RECURSIVE DigitPrefixVal(_, _)
\* value of the longest prefix of digits of s, acc the value read so far
DigitPrefixVal(s, acc) ==
  IF s = <<>> \/ Head(s) \notin Digits THEN acc
  ELSE DigitPrefixVal(Tail(s), 10 * acc + DigitVal(Head(s)))

\* parseInt(s, 10) for strings over the digits and the letter "a":
\* the longest prefix of digits, NaN when there is none
ParseInt(s) ==
  IF s = <<>> \/ Head(s) \notin Digits THEN NaN
  ELSE Num(DigitPrefixVal(s, 0))

-----------------------------------------------------------------------------
(* The Date object of the JavaScript runtime (proleptic Gregorian)         *)

\* day number (days since 1970-01-01) of the civil date y-m-d, m in 1..12
DaysFromCivil(y, m, d) ==
  LET yy == IF m <= 2 THEN y - 1 ELSE y
      era == yy \div 400
      yoe == yy - era * 400
      mp == IF m > 2 THEN m - 3 ELSE m + 9
      doy == (153 * mp + 2) \div 5 + d - 1
      doe == yoe * 365 + yoe \div 4 - yoe \div 100 + doy
  IN  era * 146097 + doe - 719468

\* civil date <<y, m, d>> of a day number
CivilFromDays(z0) ==
  LET z == z0 + 719468
      era == z \div 146097
      doe == z - era * 146097
      yoe == (doe - doe \div 1460 + doe \div 36524 - doe \div 146096) \div 365
      doy == doe - (365 * yoe + yoe \div 4 - yoe \div 100)
      mp == (5 * doy + 2) \div 153
      d == doy - (153 * mp + 2) \div 5 + 1
      m == IF mp < 10 THEN mp + 3 ELSE mp - 9
      y == yoe + era * 400 + (IF m <= 2 THEN 1 ELSE 0)
  IN  <<y, m, d>>

\* new Date(year, monthIndex, date): local midnight of that day as a time
\* value; month and date overflow or underflow carry into the year and the
\* month; any NaN argument gives an Invalid Date
NewDate(year, monthIndex, date) ==
  IF IsNum(year) /\ IsNum(monthIndex) /\ IsNum(date)
  THEN LET y == year.v + monthIndex.v \div 12
           m == monthIndex.v % 12
       IN  Num((DaysFromCivil(y, m + 1, 1) + date.v - 1) * TicksPerDay)
  ELSE NaN

\* Date.prototype.getDate(): day of the month, NaN for an Invalid Date
GetDate(t) ==
  IF IsNum(t) THEN Num(CivilFromDays(t.v \div TicksPerDay)[3]) ELSE NaN

-----------------------------------------------------------------------------
(* CardExpirationAnalyzer (app/lib/card-expiration-analyzer.ts)            *)

ExpiringSoonDays == 30
ExpiringLaterDays == 90
NoExpirationDays == 999999

\* an expiration code as stored on a card: absent (null / undefined) or a
\* string
NoCode == [present |-> FALSE, chars |-> <<>>]
Code(s) == [present |-> TRUE, chars |-> s]

\* !expirationDate: null, undefined and the empty string are falsy
Falsy(code) == ~code.present \/ code.chars = <<>>

NullDate == [isNull |-> TRUE, time |-> NaN]
DateOf(t) == [isNull |-> FALSE, time |-> t]

getLastDayOfMonth(year, month) == GetDate(NewDate(year, month, Num(0)))

\* a variant that resolves a code to the first day of its month
parseExpirationDate_FirstDay(code) ==
  IF Falsy(code) \/ Len(code.chars) # 4 THEN NullDate
  ELSE LET month == ParseInt(Substring(code.chars, 0, 2))
           year == Plus(ParseInt(Substring(code.chars, 2, 4)), Num(2000))
       IN  DateOf(NewDate(year, Minus(month, Num(1)), Num(1)))

parseExpirationDate(code) ==
  IF Falsy(code) \/ Len(code.chars) # 4 THEN NullDate
  ELSE LET month == ParseInt(Substring(code.chars, 0, 2))
           year == Plus(ParseInt(Substring(code.chars, 2, 4)), Num(2000))
       IN  DateOf(NewDate(year, Minus(month, Num(1)),
                          getLastDayOfMonth(year, month)))

\* getDaysUntilExpiration rounding down instead of up
getDaysUntilExpiration_Floor(expirationDate, t) ==
  LET diff == Minus(expirationDate.time, Num(t))
  IN  IF IsNum(diff) THEN Num(diff.v \div TicksPerDay) ELSE NaN

getDaysUntilExpiration(expirationDate, t) ==
  CeilDiv(Minus(expirationDate.time, Num(t)), TicksPerDay)

NullStatus ==
  [isNull |-> TRUE, status |-> "none", daysUntilExpiration |-> NaN,
   expirationDate |-> NaN, warningLevel |-> "none"]

\* statusOf with the 30-day boundary excluded from expiring-soon
statusOf_Strict30(daysUntil) ==
  IF LtInt(daysUntil, 0)
  THEN [status |-> "expired", warningLevel |-> "critical"]
  ELSE IF LtInt(daysUntil, ExpiringSoonDays)
  THEN [status |-> "expiring-soon", warningLevel |-> "critical"]
  ELSE IF LeInt(daysUntil, ExpiringLaterDays)
  THEN [status |-> "expiring-later", warningLevel |-> "warning"]
  ELSE [status |-> "valid", warningLevel |-> "none"]

\* the if-chain of analyzeCardExpiration: status and warning level of a
\* days-until value
statusOf(daysUntil) ==
  IF LtInt(daysUntil, 0)
  THEN [status |-> "expired", warningLevel |-> "critical"]
  ELSE IF LeInt(daysUntil, ExpiringSoonDays)
  THEN [status |-> "expiring-soon", warningLevel |-> "critical"]
  ELSE IF LeInt(daysUntil, ExpiringLaterDays)
  THEN [status |-> "expiring-later", warningLevel |-> "warning"]
  ELSE [status |-> "valid", warningLevel |-> "none"]

\* analyzeCardExpiration(code) called at the instant t.  Nothing in the try
\* block throws for a string or absent code, so the catch branch is never
\* taken.
analyzeCardExpiration(code, t) ==
  LET expDate == parseExpirationDate(code)
      daysUntil == getDaysUntilExpiration(expDate, t)
  IN  IF expDate.isNull THEN NullStatus
      ELSE [isNull |-> FALSE,
            status |-> statusOf(daysUntil).status,
            daysUntilExpiration |-> daysUntil,
            expirationDate |-> expDate.time,
            warningLevel |-> statusOf(daysUntil).warningLevel]

-----------------------------------------------------------------------------
(* Card analysis of the /api/customers loader                              *)
(* (app/routes/customers.print.tsx, second half)                           *)

LoaderFixedDay == 28

\* the date the loader resolves a truthy code to
loaderExpDate(code) ==
  LET month == ParseInt(Substring(code.chars, 0, 2))
      year == Plus(Num(2000), ParseInt(Substring(code.chars, 2, 4)))
  IN  NewDate(year, Minus(month, Num(1)), Num(LoaderFixedDay))

\* one element of cardAnalysis, computed at the instant t
cardAnalysis(code, t) ==
  IF Falsy(code)
  THEN [status |-> "no-expiration", daysUntil |-> Num(NoExpirationDays),
        expDate |-> NaN]
  ELSE LET expDate == loaderExpDate(code)
           daysDiff == CeilDiv(Minus(expDate, Num(t)), TicksPerDay)
       IN  [status |-> IF LtInt(daysDiff, 0) THEN "expired"
                       ELSE IF LeInt(daysDiff, ExpiringSoonDays)
                            THEN "expiring-soon"
                       ELSE "valid",
            daysUntil |-> daysDiff,
            expDate |-> expDate]

-----------------------------------------------------------------------------
(* The local database read by the loader (app/lib/db.ts)                   *)

\* metadata.businessName of a customer: no metadata row (NULL) or a string
NoName == [present |-> FALSE, chars |-> <<>>]
Name(s) == [present |-> TRUE, chars |-> s]

CharCode(c) ==
  CASE c = " " -> 32 [] c = "A" -> 65 [] c = "B" -> 66 [] c = "C" -> 67
    [] c = "D" -> 68

RECURSIVE StrLeq(_, _)
\* a <= b in the BINARY collation of ORDER BY
StrLeq(a, b) ==
  IF a = <<>> THEN TRUE
  ELSE IF b = <<>> THEN FALSE
  ELSE IF CharCode(Head(a)) # CharCode(Head(b))
       THEN CharCode(Head(a)) < CharCode(Head(b))
  ELSE StrLeq(Tail(a), Tail(b))

\* the rows of SELECT ... FROM customers c LEFT JOIN metadata m
\* WHERE m.businessName IS NOT NULL
namedCustomers(customers) == {r \in customers : r.businessName.present}

\* the results the query may give: the named rows in every order that
\* ORDER BY m.businessName allows (rows of equal name in any order)
customersQuery(customers) ==
  LET rows == namedCustomers(customers)
      n == Cardinality(rows)
  IN  {q \in [1..n -> rows] :
         /\ \A i, j \in 1..n : i # j => q[i] # q[j]
         /\ \A i, j \in 1..n :
              i < j => StrLeq(q[i].businessName.chars, q[j].businessName.chars)}

-----------------------------------------------------------------------------
(* /api/customers loader: customersWithAnalysis                            *)

\* cardsByCustomer without the grouping by customerId
cardsByCustomer_Ungrouped(cards, id) == cards

\* cardsByCustomer[customer.id] || []
cardsByCustomer(cards, id) ==
  LET Mine(r) == r.customerId = id
  IN  SelectSeq(cards, Mine)

\* JSON.stringify of a number: NaN becomes null
JsonNumber(x) == IF x.k = "nan" THEN JsNull ELSE x

\* one element of customersWithAnalysis as the page receives it
customerWithAnalysis(customer, cards, t) ==
  LET customerCards == cardsByCustomer(cards, customer.id)
      analysed == [i \in 1..Len(customerCards) |->
                     LET a == cardAnalysis(customerCards[i].expirationDate, t)
                     IN  [card |-> customerCards[i], status |-> a.status,
                          daysUntil |-> JsonNumber(a.daysUntil)]]
  IN  [id |-> customer.id,
       businessName |-> customer.businessName,
       customerSince |-> customer.customerSince,
       cards |-> analysed,
       hasExpired |-> \E i \in 1..Len(analysed) : analysed[i].status = "expired",
       hasExpiringSoon |->
         \E i \in 1..Len(analysed) : analysed[i].status = "expiring-soon",
       totalCards |-> Len(customerCards)]

customersWithAnalysis(rows, cards, t) ==
  [i \in 1..Len(rows) |-> customerWithAnalysis(rows[i], cards, t)]

-----------------------------------------------------------------------------
(* Policy A and the urgency sort (app/routes/customers.tsx and             *)
(* app/routes/customers.print.tsx)                                         *)

NewCustomerDays == 90
RecentlyExpiredDays == 180

\* new Date('2025-07-21').getTime(): midnight UTC
cleanupDate == DaysFromCivil(2025, 7, 21) * TicksPerDay

threeMonthsAgo(t) == t - NewCustomerDays * TicksPerDay

RECURSIVE TrimStart(_)
TrimStart(s) == IF s # <<>> /\ Head(s) = " " THEN TrimStart(Tail(s)) ELSE s

RECURSIVE TrimEnd(_)
TrimEnd(s) ==
  IF s # <<>> /\ s[Len(s)] = " " THEN TrimEnd(SubSeq(s, 1, Len(s) - 1)) ELSE s

\* String.prototype.trim()
Trim(s) == TrimEnd(TrimStart(s))

\* truthiness of a number or null: null, NaN and 0 are falsy
Truthy(x) == x.k = "num" /\ x.v # 0

\* ToNumber: null is 0
ToNumber(x) == IF x.k = "null" THEN Num(0) ELSE x

\* Math.abs
Abs(x) ==
  LET n == ToNumber(x)
  IN  IF IsNum(n) THEN Num(IF n.v < 0 THEN -n.v ELSE n.v) ELSE NaN

\* a < b on numbers or null
Lt(a, b) ==
  LET x == ToNumber(a)
      y == ToNumber(b)
  IN  IsNum(x) /\ IsNum(y) /\ x.v < y.v

\* recentlyExpired without the 180-day limit
recentlyExpired_AnyAge(card) == card.status = "expired"

\* card.status === 'expired' && Math.abs(card.daysUntil) <= 180
recentlyExpired(card) ==
  /\ card.status = "expired"
  /\ LeInt(Abs(card.daysUntil), RecentlyExpiredDays)

\* the callback of categorizedCustomers.actionRequired (main page)
actionRequired(c, t) ==
  IF ~c.businessName.present \/ c.businessName.chars = <<>>
     \/ Trim(c.businessName.chars) = <<>>
  THEN FALSE
  ELSE LET hasCards == c.totalCards > 0
           isNewCustomer ==
             /\ Truthy(c.customerSince)
             /\ IF hasCards THEN c.customerSince.v >= threeMonthsAgo(t)
                ELSE c.customerSince.v >= cleanupDate
           hasRecentlyExpired ==
             \E i \in 1..Len(c.cards) : recentlyExpired(c.cards[i])
       IN  isNewCustomer \/ c.hasExpiringSoon \/ hasRecentlyExpired

\* the callback of the print view's action-required filter
printActionRequired(c, t) ==
  IF ~c.businessName.present \/ c.businessName.chars = <<>>
     \/ Trim(c.businessName.chars) = <<>>
  THEN FALSE
  ELSE LET hasCards == c.totalCards > 0
           isNewCustomer ==
             /\ Truthy(c.customerSince)
             /\ IF hasCards THEN c.customerSince.v >= threeMonthsAgo(t)
                ELSE c.customerSince.v >= cleanupDate
           hasRecentlyExpired ==
             \E i \in 1..Len(c.cards) : recentlyExpired(c.cards[i])
       IN  isNewCustomer \/ c.hasExpiringSoon \/ hasRecentlyExpired

FilterTypes ==
  {"all", "action-required", "expired", "expiring", "no-cards", "active"}

\* the filter stage of displayCustomers (main page), empty search term
displayFilter(customers, filter, t) ==
  LET Action(c) == actionRequired(c, t)
      Expired(c) == c.hasExpired
      Expiring(c) == c.hasExpiringSoon /\ ~c.hasExpired
      NoCards(c) == c.totalCards = 0
      Active(c) == c.totalCards > 0 /\ ~c.hasExpired /\ ~c.hasExpiringSoon
  IN  CASE filter = "action-required" -> SelectSeq(customers, Action)
        [] filter = "expired" -> SelectSeq(customers, Expired)
        [] filter = "expiring" -> SelectSeq(customers, Expiring)
        [] filter = "no-cards" -> SelectSeq(customers, NoCards)
        [] filter = "active" -> SelectSeq(customers, Active)
        [] OTHER -> customers

\* the filter stage of CustomersPrintContent, empty search term
printFilter(customers, filter, t) ==
  LET Action(c) == printActionRequired(c, t)
      Expired(c) == c.hasExpired
      Expiring(c) == c.hasExpiringSoon /\ ~c.hasExpired
      NoCards(c) == c.totalCards = 0
  IN  CASE filter = "action-required" -> SelectSeq(customers, Action)
        [] filter = "expired" -> SelectSeq(customers, Expired)
        [] filter = "expiring" -> SelectSeq(customers, Expiring)
        [] filter = "no-cards" -> SelectSeq(customers, NoCards)
        [] OTHER -> customers

\* does the print view's filter stage hand on data.customers itself (no
\* filter applied) rather than a new array?
printAliasesData(filter) ==
  filter \notin {"action-required", "expired", "expiring", "no-cards"}

\* String.prototype.toLowerCase on the characters used here
ToLowerCase(str) ==
  [i \in 1..Len(str) |->
     CASE str[i] = "A" -> "a" [] str[i] = "B" -> "b" [] str[i] = "C" -> "c"
       [] str[i] = "D" -> "d" [] OTHER -> str[i]]

\* String.prototype.includes
Includes(str, search) ==
  \E i \in 0..(Len(str) - Len(search)) :
    SubSeq(str, i + 1, i + Len(search)) = search

\* (customer.businessName || '')
businessOf(c) == IF c.businessName.present THEN c.businessName.chars ELSE <<>>

\* the search stage of displayCustomers (main page); the customers here
\* have no first name, last name, e-mail or phone, so that name is " " and
\* email and phone are ''
displaySearch(customers, searchTerm) ==
  LET search == ToLowerCase(searchTerm)
      Matches(c) ==
        \/ Includes(ToLowerCase(<<" ">>), search)
        \/ Includes(ToLowerCase(businessOf(c)), search)
        \/ Includes(<<>>, search)
  IN  IF searchTerm # <<>> THEN SelectSeq(customers, Matches) ELSE customers

\* the search stage of CustomersPrintContent
printSearch(customers, searchTerm) ==
  LET search == ToLowerCase(searchTerm)
      Matches(c) ==
        \/ Includes(ToLowerCase(<<" ">>), search)
        \/ Includes(ToLowerCase(businessOf(c)), search)
        \/ Includes(<<>>, search)
  IN  IF searchTerm # <<>> THEN SelectSeq(customers, Matches) ELSE customers

getUrgency(c) ==
  IF c.hasExpired THEN 4
  ELSE IF c.hasExpiringSoon THEN 3
  ELSE IF c.totalCards = 0 THEN 2
  ELSE 1

RECURSIVE InsertByUrgency(_, _)
\* x placed behind every element the comparator does not put after it
InsertByUrgency(sorted, x) ==
  IF sorted = <<>> THEN <<x>>
  ELSE IF getUrgency(x) - getUrgency(Head(sorted)) > 0
       THEN <<x>> \o sorted
  ELSE <<Head(sorted)>> \o InsertByUrgency(Tail(sorted), x)

RECURSIVE SortFrom(_, _)
SortFrom(sorted, rest) ==
  IF rest = <<>> THEN sorted
  ELSE SortFrom(InsertByUrgency(sorted, Head(rest)), Tail(rest))

\* Array.prototype.sort((a, b) => getUrgency(b) - getUrgency(a)): stable
sortByUrgency(customers) == SortFrom(<<>>, customers)

-----------------------------------------------------------------------------
(* getCardStatus of the print view                                         *)

NoCard == [card |-> [id |-> 0, customerId |-> "none", expirationDate |-> NoCode],
           status |-> "none", daysUntil |-> JsNull]

\* formatExpiry: MM/YY, or the empty string
formatExpiry(code) ==
  IF Falsy(code) \/ Len(code.chars) # 4 THEN <<>>
  ELSE Substring(code.chars, 0, 2) \o <<"/">> \o Substring(code.chars, 2, 4)

RECURSIVE reduceMostRecent_LongestOverdue(_, _)
\* reduceMostRecent preferring the larger |daysUntil|
reduceMostRecent_LongestOverdue(recent, rest) ==
  IF rest = <<>> THEN recent
  ELSE reduceMostRecent_LongestOverdue(
         IF Lt(Abs(recent.daysUntil), Abs(Head(rest).daysUntil))
         THEN Head(rest) ELSE recent,
         Tail(rest))

RECURSIVE reduceMostRecent(_, _)
\* expiredCards.reduce(...): the smaller |daysUntil| wins, the earlier on ties
reduceMostRecent(recent, rest) ==
  IF rest = <<>> THEN recent
  ELSE reduceMostRecent(
         IF Lt(Abs(Head(rest).daysUntil), Abs(recent.daysUntil))
         THEN Head(rest) ELSE recent,
         Tail(rest))

RECURSIVE reduceSoonest(_, _)
\* xs.reduce(...): the smaller daysUntil wins, the earlier on ties
reduceSoonest(soon, rest) ==
  IF rest = <<>> THEN soon
  ELSE reduceSoonest(
         IF Lt(Head(rest).daysUntil, soon.daysUntil) THEN Head(rest) ELSE soon,
         Tail(rest))

getCardStatus(customer) ==
  LET cards == customer.cards
      IsExpired(c) == c.status = "expired"
      IsSoon(c) == c.status = "expiring-soon"
      IsActive(c) == c.status = "valid" \/ c.status = "active"
      expiredCards == SelectSeq(cards, IsExpired)
      expiringSoonCards == SelectSeq(cards, IsSoon)
      activeCards == SelectSeq(cards, IsActive)
      Shown(label, chosen) ==
        [status |-> label,
         expiry |-> formatExpiry(chosen.card.expirationDate),
         selected |-> chosen]
  IN  IF Len(expiredCards) > 0
      THEN Shown("EXPIRED",
                 reduceMostRecent(Head(expiredCards), Tail(expiredCards)))
      ELSE IF Len(expiringSoonCards) > 0
      THEN Shown("EXPIRING",
                 reduceSoonest(Head(expiringSoonCards), Tail(expiringSoonCards)))
      ELSE IF Len(cards) = 0
      THEN [status |-> "NO PAYMENT METHOD", expiry |-> <<>>, selected |-> NoCard]
      ELSE IF Len(activeCards) > 0
      THEN Shown("Active", reduceSoonest(Head(activeCards), Tail(activeCards)))
      ELSE [status |-> "Active", expiry |-> <<>>, selected |-> NoCard]

-----------------------------------------------------------------------------
(* analyzeCustomers and ClientStatusAnalyzer                                *)
(* (app/lib/card-expiration-analyzer.ts)                                    *)

NewCustomerMaxDays == 180
OldCustomerDays == 365
UnknownAgeDays == 999

\* customer.cards of a platform customer: missing, a flat array or the
\* nested {elements: [...]} wrapper
NoCards == [shape |-> "absent", elements |-> <<>>]
FlatCards(list) == [shape |-> "flat", elements |-> list]
NestedCards(list) == [shape |-> "nested", elements |-> list]

\* the expiration given to a card without a date: new Date('2099-12-31')
defaultExpiration ==
  [status |-> "valid", daysUntilExpiration |-> Num(NoExpirationDays),
   expirationDate |-> Num(DaysFromCivil(2099, 12, 31) * TicksPerDay),
   warningLevel |-> "none"]

\* expirationAnalysis of one customer, as analyzeCustomers computes it at t
expirationAnalysisOf(customer, t) ==
  LET cards == IF customer.cards.shape \in {"flat", "nested"}
               THEN customer.cards.elements ELSE <<>>
  IN  [i \in 1..Len(cards) |->
         LET expiration == analyzeCardExpiration(cards[i].expirationDate, t)
         IN  [card |-> cards[i],
              expiration |->
                IF expiration.isNull THEN defaultExpiration
                ELSE [status |-> expiration.status,
                      daysUntilExpiration |-> expiration.daysUntilExpiration,
                      expirationDate |-> expiration.expirationDate,
                      warningLevel |-> expiration.warningLevel]]]

\* a variant that rounds the age up
getDaysSinceCreated_Ceil(createdTime, t) ==
  0 - ((createdTime.v - t) \div TicksPerDay)

\* Math.floor((now - createdTime) / (1000 * 3600 * 24))
getDaysSinceCreated(createdTime, t) == (t - createdTime.v) \div TicksPerDay

\* a variant that knows the flat array only
hasPaymentMethods_FlatOnly(customer) ==
  customer.cards.shape = "flat" /\ Len(customer.cards.elements) > 0

hasPaymentMethods(customer) ==
  \/ customer.cards.shape = "flat" /\ Len(customer.cards.elements) > 0
  \/ customer.cards.shape = "nested" /\ Len(customer.cards.elements) > 0

\* a || b on numbers
OrElse(a, b) == IF Truthy(a) THEN a ELSE b

\* a variant that looks at the first record only
hasExpiredCards_FirstOnly(list) ==
  Len(list) > 0 /\ list[1].expiration.status = "expired"

\* expirationAnalysis.some(a => a.expiration.status === 'expired')
hasExpiredCards(list) ==
  \E i \in 1..Len(list) : list[i].expiration.status = "expired"

\* expirationAnalysis.some(a => a.expiration.status === 'expiring-soon')
hasExpiringSoonCards(list) ==
  \E i \in 1..Len(list) : list[i].expiration.status = "expiring-soon"

\* a variant in which every priority above none asks for action
ClientStatus_ActionByPriority(status, priority, daysOld, hasCards, requiresAction, message) ==
  [status |-> status, priority |-> priority, daysOld |-> daysOld,
   hasCards |-> hasCards, requiresAction |-> priority # "none",
   actionMessage |-> message]

ClientStatus(status, priority, daysOld, hasCards, requiresAction, message) ==
  [status |-> status, priority |-> priority, daysOld |-> daysOld,
   hasCards |-> hasCards, requiresAction |-> requiresAction,
   actionMessage |-> message]

\* analyzeClientStatus(customer, expirationAnalysis) called at the instant t;
\* expirationAnalysis is [present |-> BOOLEAN, list |-> records]
analyzeClientStatus(customer, expirationAnalysis, t) ==
  LET createdTime == OrElse(customer.createdTime, customer.customerSince)
      hasCards == hasPaymentMethods(customer)
      daysOld == getDaysSinceCreated(createdTime, t)
      list == expirationAnalysis.list
  IN  IF ~Truthy(createdTime)
      THEN ClientStatus(IF hasCards THEN "all-good" ELSE "inactive-old",
                        "none", UnknownAgeDays, hasCards, FALSE,
                        IF hasCards THEN "Customer is set up properly"
                        ELSE "Old customer - no action needed")
      ELSE IF hasCards /\ expirationAnalysis.present
              /\ hasExpiredCards(list)
      THEN ClientStatus("expired-cards", "critical", daysOld, hasCards, TRUE,
                        "URGENT: Customer has expired credit cards")
      ELSE IF hasCards /\ expirationAnalysis.present
              /\ hasExpiringSoonCards(list)
      THEN ClientStatus("expiring-cards", "high", daysOld, hasCards, TRUE,
                        "Customer has cards expiring soon")
      ELSE IF ~hasCards /\ daysOld <= NewCustomerMaxDays
      THEN ClientStatus("new-needs-payment", "high", daysOld, hasCards, TRUE,
                        "New customer needs payment method setup")
      ELSE IF ~hasCards /\ daysOld > OldCustomerDays
      THEN ClientStatus("inactive-old", "none", daysOld, hasCards, FALSE,
                        "Old inactive customer - no action needed")
      ELSE IF ~hasCards
      THEN ClientStatus("inactive-old", "low", daysOld, hasCards, FALSE,
                        "Customer has not set up payment methods")
      ELSE ClientStatus("all-good", "none", daysOld, hasCards, FALSE,
                        "Customer is set up properly")

-----------------------------------------------------------------------------
(* Operations on customer lists: analyzeCustomers, filterByStatus,         *)
(* generateSummary, analyzeCustomersWithStatus,                             *)
(* getCustomersRequiringAction (app/lib/card-expiration-analyzer.ts)        *)

RECURSIVE Sum(_)
\* reduce((sum, x) => sum + x, 0)
Sum(nums) == IF nums = <<>> THEN 0 ELSE Head(nums) + Sum(Tail(nums))

\* customers.map(customer => ({...customer, expirationAnalysis}))
analyzeCustomers(customers, t) ==
  [i \in 1..Len(customers) |->
     [createdTime |-> customers[i].createdTime,
      customerSince |-> customers[i].customerSince,
      cards |-> customers[i].cards,
      expirationAnalysis |-> expirationAnalysisOf(customers[i], t)]]

filterByStatus(customers, statuses) ==
  LET Some(customer) ==
        \E i \in 1..Len(customer.expirationAnalysis) :
          customer.expirationAnalysis[i].expiration.status \in statuses
  IN  SelectSeq(customers, Some)

getExpiredCards(customers) == filterByStatus(customers, {"expired"})

getExpiringSoonCards(customers) == filterByStatus(customers, {"expiring-soon"})

getExpiringLaterCards(customers) ==
  filterByStatus(customers, {"expiring-later"})

\* Array.isArray(customer.cards) ? customer.cards : []
summaryCardsOf(customer) ==
  IF customer.cards.shape = "flat" THEN customer.cards.elements ELSE <<>>

\* a variant that counts one card for each flagged customer
summaryBucket_PerCustomer(flagged) ==
  [customers |-> Len(flagged), cards |-> Len(flagged)]

\* one bucket of the summary: the flagged customers and the sum of their
\* expirationAnalysis lengths
summaryBucket(flagged) ==
  [customers |-> Len(flagged),
   cards |-> Sum([i \in 1..Len(flagged) |->
                    Len(flagged[i].expirationAnalysis)])]

generateSummary(customers) ==
  [totalCustomers |-> Len(customers),
   totalCards |-> Sum([i \in 1..Len(customers) |->
                         Len(summaryCardsOf(customers[i]))]),
   expired |-> summaryBucket(getExpiredCards(customers)),
   expiringSoon |-> summaryBucket(getExpiringSoonCards(customers)),
   expiringLater |-> summaryBucket(getExpiringLaterCards(customers))]

\* customers.map(customer => ({...customer, clientStatus}))
analyzeCustomersWithStatus(customersWithExpiration, t) ==
  [i \in 1..Len(customersWithExpiration) |->
     LET customer == customersWithExpiration[i]
     IN  [createdTime |-> customer.createdTime,
          customerSince |-> customer.customerSince,
          cards |-> customer.cards,
          expirationAnalysis |-> customer.expirationAnalysis,
          clientStatus |->
            analyzeClientStatus(customer,
                                [present |-> TRUE,
                                 list |-> customer.expirationAnalysis], t)]]

getCustomersRequiringAction(customers) ==
  LET Requires(customer) == customer.clientStatus.requiresAction
  IN  SelectSeq(customers, Requires)

-----------------------------------------------------------------------------
(* CloverSyncService (app/lib/clover-sync.ts) and the tables of            *)
(* app/lib/db.ts                                                            *)

\* this.configs in the order initializeClients pushes them
Merchants == <<"USD", "CAD">>

EmptyDb == [customers |-> {}, cards |-> {}]

\* id LIKE 'CUST_%'
IsTestId(id) == id = "CUST_1"

\* clearTestData: the child rows and then the customers whose id starts
\* with CUST_
clearTestData(db) ==
  [customers |-> {r \in db.customers : ~IsTestId(r.id)},
   cards |-> {k \in db.cards : ~IsTestId(k.customerId)}]

\* INSERT OR REPLACE INTO customers: the row with the same id (PRIMARY KEY)
\* is deleted, and with it its cards (ON DELETE CASCADE, foreign_keys = ON)
replaceCustomer(db, row) ==
  [customers |-> {r \in db.customers : r.id # row.id} \cup {row},
   cards |-> {k \in db.cards : k.customerId # row.id}]

\* INSERT OR REPLACE INTO cards: the row with the same card id is replaced
replaceCard(db, row) ==
  [customers |-> db.customers,
   cards |-> {k \in db.cards : k.id # row.id} \cup {row}]

RECURSIVE storeCards(_, _, _)
storeCards(db, customerId, cards) ==
  IF cards = <<>> THEN db
  ELSE storeCards(replaceCard(db, [id |-> Head(cards).id,
                                   customerId |-> customerId,
                                   expirationDate |-> Head(cards).expirationDate]),
                  customerId, Tail(cards))

\* storeCustomer(customer, config): the customers row, the metadata row
\* when there is a business name, the cards rows
storeCustomer(db, customer, currency) ==
  storeCards(replaceCustomer(db, [id |-> customer.id,
                                  merchantCurrency |-> currency,
                                  businessName |-> customer.businessName]),
             customer.id, customer.cards)

RECURSIVE storeCustomers(_, _, _)
\* for (const customer of allCustomers) await this.storeCustomer(...)
storeCustomers(db, customers, currency) ==
  IF customers = <<>> THEN db
  ELSE storeCustomers(storeCustomer(db, Head(customers), currency),
                      Tail(customers), currency)

RECURSIVE syncMerchants(_, _, _, _)
\* for (const config of this.configs): fetch all customers and store them;
\* a merchant whose fetch throws is skipped
syncMerchants(db, configs, platform, failing) ==
  IF configs = <<>> THEN db
  ELSE LET currency == Head(configs)
           next == IF currency \in failing THEN db
                   ELSE storeCustomers(db, platform[currency], currency)
       IN  syncMerchants(next, Tail(configs), platform, failing)

syncAllCustomers(db, platform, failing) ==
  syncMerchants(clearTestData(db), Merchants, platform, failing)

\* /api/customers on the synced tables: every customer with a business
\* name, with its merchant currency and the cards grouped under its id
apiCustomersOf(db) ==
  {[id |-> r.id, merchantCurrency |-> r.merchantCurrency,
    cards |-> {k \in db.cards : k.customerId = r.id}] :
     r \in {q \in db.customers : q.businessName.present}}

-----------------------------------------------------------------------------
(* Inputs of the card-level specification                                  *)

MonthStrings ==
  {<<"0", "1">>, <<"0", "2">>, <<"0", "3">>, <<"0", "4">>, <<"0", "5">>,
   <<"0", "6">>, <<"0", "7">>, <<"0", "8">>, <<"0", "9">>, <<"1", "0">>,
   <<"1", "1">>, <<"1", "2">>}

YearStrings ==
  {<<"0", "0">>, <<"2", "4">>, <<"2", "5">>, <<"2", "6">>, <<"9", "9">>}

ValidCodes == {Code(m \o y) : m \in MonthStrings, y \in YearStrings}

MalformedCodes ==
  {NoCode, Code(<<>>), Code(<<"1", "2", "6">>),
   Code(<<"1", "2", "2", "6", "0">>), Code(<<"a", "a", "a", "a">>),
   Code(<<"1", "a", "2", "6">>), Code(<<"a", "1", "2", "6">>),
   Code(<<"1", "2", "a", "6">>), Code(<<"1", "2", "2", "a">>),
   Code(<<"0", "0", "2", "6">>), Code(<<"1", "3", "2", "6">>),
   Code(<<"9", "9", "2", "5">>)}

Codes == ValidCodes \cup MalformedCodes

\* the reference instants: WindowDays days from 2025-12-01
WindowStart == DaysFromCivil(2025, 12, 1) * TicksPerDay
WindowEnd == WindowStart + WindowDays * TicksPerDay

Instants == WindowStart .. WindowEnd

NotRun == [done |-> FALSE]

SinceIdle ==
  /\ sinceRow = NotRun
  /\ sinceAges = NotRun

FlowIdle ==
  /\ workflow = NotRun

RecoveryIdle ==
  /\ recovery = NotRun

LockIdle ==
  /\ lockFile = 0
  /\ monitors = NotRun

RateIdle ==
  /\ rateClock = 0
  /\ lastRequestTime = 0
  /\ calls = NotRun
  /\ requests = <<>>

CacheIdle ==
  /\ globalCache = {}
  /\ cacheCalls = NotRun
  /\ cacheSource = NotRun

ServerIdle ==
  /\ lastSync = NotRun
  /\ runs = 0

PagingIdle ==
  /\ paging = NotRun

-----------------------------------------------------------------------------
(* Card-level specification: one card, the clock, the two classifiers      *)

NotLoaded == [done |-> FALSE]
NotRendered == [done |-> FALSE]

\* no customers on the platform, no sync run yet
NoUpstream == [m \in {"USD", "CAD"} |-> <<>>]
NoSync ==
  [done |-> FALSE, failing |-> {},
   lastOk |-> [m \in {"USD", "CAD"} |-> [ok |-> FALSE, customers |-> <<>>]]]

\* no expirationAnalysis argument
NoAnalysis == [present |-> FALSE, list |-> <<>>]

\* a customer without timestamps and without cards
NoClient == [createdTime |-> JsNull, customerSince |-> JsNull, cards |-> NoCards]

Init ==
  /\ now \in Instants
  /\ expCode \in Codes
  /\ analysis = NotRun
  /\ loaderAnalysis = NotRun
  /\ dbCustomers = {}
  /\ dbCards = <<>>
  /\ response = NotLoaded
  /\ view = NotRendered
  /\ clientCustomer = NoClient
  /\ clientAnalysis = NoAnalysis
  /\ clientStatus = NotRun
  /\ population = <<>>
  /\ classified = NotRun
  /\ summary = NotRun
  /\ statused = NotRun
  /\ actionList = NotRun
  /\ upstream = NoUpstream
  /\ syncDb = EmptyDb
  /\ syncLog = NoSync
  /\ syncResponse = NotLoaded
  /\ printed = NotRendered
  /\ SinceIdle
  /\ FlowIdle
  /\ RecoveryIdle
  /\ LockIdle
  /\ RateIdle
  /\ CacheIdle
  /\ ServerIdle
  /\ PagingIdle

\* time passes; results of earlier requests are gone
Tick ==
  /\ now < WindowEnd
  /\ now' = now + 1
  /\ analysis' = NotRun
  /\ loaderAnalysis' = NotRun
  /\ UNCHANGED expCode
  /\ UNCHANGED pageVars
  /\ UNCHANGED popVars
  /\ UNCHANGED clientVars
  /\ UNCHANGED syncVars
  /\ UNCHANGED printed
  /\ UNCHANGED sinceVars
  /\ UNCHANGED flowVars
  /\ UNCHANGED recoveryVars
  /\ UNCHANGED lockVars
  /\ UNCHANGED rateVars
  /\ UNCHANGED cacheVars
  /\ UNCHANGED serverVars
  /\ UNCHANGED pagingVars

\* the card on file is replaced (a sync brings another code)
ReplaceCard ==
  /\ \E c \in Codes : c # expCode /\ expCode' = c
  /\ analysis' = NotRun
  /\ loaderAnalysis' = NotRun
  /\ UNCHANGED now
  /\ UNCHANGED pageVars
  /\ UNCHANGED popVars
  /\ UNCHANGED clientVars
  /\ UNCHANGED syncVars
  /\ UNCHANGED printed
  /\ UNCHANGED sinceVars
  /\ UNCHANGED flowVars
  /\ UNCHANGED recoveryVars
  /\ UNCHANGED lockVars
  /\ UNCHANGED rateVars
  /\ UNCHANGED cacheVars
  /\ UNCHANGED serverVars
  /\ UNCHANGED pagingVars

\* CardExpirationAnalyzer.analyzeCardExpiration(card.expirationDate)
AnalyzeCard ==
  /\ analysis' = [done |-> TRUE, code |-> expCode, at |-> now,
                  result |-> analyzeCardExpiration(expCode, now)]
  /\ UNCHANGED <<now, expCode, loaderAnalysis>>
  /\ UNCHANGED pageVars
  /\ UNCHANGED popVars
  /\ UNCHANGED clientVars
  /\ UNCHANGED syncVars
  /\ UNCHANGED printed
  /\ UNCHANGED sinceVars
  /\ UNCHANGED flowVars
  /\ UNCHANGED recoveryVars
  /\ UNCHANGED lockVars
  /\ UNCHANGED rateVars
  /\ UNCHANGED cacheVars
  /\ UNCHANGED serverVars
  /\ UNCHANGED pagingVars

\* the loader's cardAnalysis for the card
LoaderAnalyzeCard ==
  /\ loaderAnalysis' = [done |-> TRUE, code |-> expCode, at |-> now,
                        result |-> cardAnalysis(expCode, now)]
  /\ UNCHANGED <<now, expCode, analysis>>
  /\ UNCHANGED pageVars
  /\ UNCHANGED popVars
  /\ UNCHANGED clientVars
  /\ UNCHANGED syncVars
  /\ UNCHANGED printed
  /\ UNCHANGED sinceVars
  /\ UNCHANGED flowVars
  /\ UNCHANGED recoveryVars
  /\ UNCHANGED lockVars
  /\ UNCHANGED rateVars
  /\ UNCHANGED cacheVars
  /\ UNCHANGED serverVars
  /\ UNCHANGED pagingVars

Next == Tick \/ ReplaceCard \/ AnalyzeCard \/ LoaderAnalyzeCard

Spec == Init /\ [][Next]_vars

-----------------------------------------------------------------------------
(* Inputs of the page-level specification                                  *)

CustomerIds == {"c1", "c2", "c3"}

\* the instants at which pages are requested: 2025-12-25 after midnight,
\* 2025-12-26 00:00 and 2026-02-27 00:00
PageInstants ==
  {DaysFromCivil(2025, 12, 25) * TicksPerDay + 1,
   DaysFromCivil(2025, 12, 26) * TicksPerDay,
   DaysFromCivil(2026, 2, 27) * TicksPerDay}

FirstPageInstant == DaysFromCivil(2025, 12, 25) * TicksPerDay + 1

\* customerSince values around the two thresholds of the new-customer rule
SinceValues ==
  {JsNull, Num(cleanupDate - 1), Num(cleanupDate),
   Num(threeMonthsAgo(FirstPageInstant)),
   Num(threeMonthsAgo(FirstPageInstant) + TicksPerDay)}

\* (businessName, customerSince) a customer may be stored with
Profiles(id) ==
  CASE id = "c1" ->
         {<<NoName, JsNull>>, <<Name(<<" ">>), Num(cleanupDate)>>,
          <<Name(<<" ", "A", " ">>), Num(cleanupDate)>>,
          <<Name(<<"C">>), JsNull>>}
         \cup {<<Name(<<"A">>), since>> : since \in SinceValues}
    [] id = "c2" -> {<<Name(<<"B">>), JsNull>>}
    [] id = "c3" -> {<<Name(<<"D">>), JsNull>>}

\* expiration codes a customer's cards may be stored with
CardCodes(id) ==
  IF id = "c1"
  THEN {NoCode, Code(<<"a", "a", "a", "a">>), Code(<<"0", "6", "2", "5">>),
        Code(<<"1", "2", "2", "5">>), Code(<<"0", "1", "2", "6">>),
        Code(<<"0", "2", "2", "6">>), Code(<<"0", "3", "2", "6">>)}
  ELSE {Code(<<"1", "2", "2", "5">>)}

ShownFilters == {"action-required", "all"}

-----------------------------------------------------------------------------
(* Page-level specification: the database, the /api/customers loader and   *)
(* the two customer lists                                                   *)

InitPage ==
  /\ now \in PageInstants
  /\ expCode = NoCode
  /\ analysis = NotRun
  /\ loaderAnalysis = NotRun
  /\ dbCustomers = {}
  /\ dbCards = <<>>
  /\ response = NotLoaded
  /\ view = NotRendered
  /\ clientCustomer = NoClient
  /\ clientAnalysis = NoAnalysis
  /\ clientStatus = NotRun
  /\ population = <<>>
  /\ classified = NotRun
  /\ summary = NotRun
  /\ statused = NotRun
  /\ actionList = NotRun
  /\ upstream = NoUpstream
  /\ syncDb = EmptyDb
  /\ syncLog = NoSync
  /\ syncResponse = NotLoaded
  /\ printed = NotRendered
  /\ SinceIdle
  /\ FlowIdle
  /\ RecoveryIdle
  /\ LockIdle
  /\ RateIdle
  /\ CacheIdle
  /\ ServerIdle
  /\ PagingIdle

\* a customer row (and its metadata row, when it has a business name) is
\* stored; open pages are closed
PutCustomer ==
  /\ \E id \in CustomerIds, p \in UNION {Profiles(i) : i \in CustomerIds} :
       /\ p \in Profiles(id)
       /\ \A r \in dbCustomers : r.id # id
       /\ dbCustomers' = dbCustomers \cup
            {[id |-> id, businessName |-> p[1], customerSince |-> p[2]]}
  /\ response' = NotLoaded
  /\ view' = NotRendered
  /\ UNCHANGED <<now, dbCards>>
  /\ UNCHANGED cardVars
  /\ UNCHANGED clientVars
  /\ UNCHANGED syncVars
  /\ UNCHANGED popVars
  /\ UNCHANGED printed
  /\ UNCHANGED sinceVars
  /\ UNCHANGED flowVars
  /\ UNCHANGED recoveryVars
  /\ UNCHANGED lockVars
  /\ UNCHANGED rateVars
  /\ UNCHANGED cacheVars
  /\ UNCHANGED serverVars
  /\ UNCHANGED pagingVars

\* a card row is stored for a stored customer (foreign key on customerId)
PutCard ==
  /\ Len(dbCards) < MaxCards
  /\ \E r \in dbCustomers, c \in UNION {CardCodes(i) : i \in CustomerIds} :
       /\ c \in CardCodes(r.id)
       /\ dbCards' = Append(dbCards, [id |-> Len(dbCards) + 1,
                                      customerId |-> r.id,
                                      expirationDate |-> c])
  /\ response' = NotLoaded
  /\ view' = NotRendered
  /\ UNCHANGED <<now, dbCustomers>>
  /\ UNCHANGED cardVars
  /\ UNCHANGED clientVars
  /\ UNCHANGED syncVars
  /\ UNCHANGED popVars
  /\ UNCHANGED printed
  /\ UNCHANGED sinceVars
  /\ UNCHANGED flowVars
  /\ UNCHANGED recoveryVars
  /\ UNCHANGED lockVars
  /\ UNCHANGED rateVars
  /\ UNCHANGED cacheVars
  /\ UNCHANGED serverVars
  /\ UNCHANGED pagingVars

\* GET /api/customers?all=true
ApiCustomers ==
  /\ \E q \in customersQuery(dbCustomers) :
       response' = [done |-> TRUE, at |-> now,
                    customers |-> customersWithAnalysis(q, dbCards, now)]
  /\ view' = NotRendered
  /\ UNCHANGED <<now, dbCustomers, dbCards>>
  /\ UNCHANGED cardVars
  /\ UNCHANGED clientVars
  /\ UNCHANGED syncVars
  /\ UNCHANGED popVars
  /\ UNCHANGED printed
  /\ UNCHANGED sinceVars
  /\ UNCHANGED flowVars
  /\ UNCHANGED recoveryVars
  /\ UNCHANGED lockVars
  /\ UNCHANGED rateVars
  /\ UNCHANGED cacheVars
  /\ UNCHANGED serverVars
  /\ UNCHANGED pagingVars

\* the main page renders displayCustomers, sorted by urgency: the sort
\* works on a copy of the filtered list
RenderMain ==
  /\ response.done
  /\ \E filter \in ShownFilters :
       LET filtered == displayFilter(response.customers, filter, now)
           sorted == sortByUrgency(filtered)
       IN  view' = [done |-> TRUE, page |-> "main", filter |-> filter,
                    at |-> now, sortInput |-> filtered, shown |-> sorted,
                    data |-> response.customers, cardStatus |-> <<>>]
  /\ UNCHANGED <<now, dbCustomers, dbCards, response>>
  /\ UNCHANGED cardVars
  /\ UNCHANGED clientVars
  /\ UNCHANGED syncVars
  /\ UNCHANGED popVars
  /\ UNCHANGED printed
  /\ UNCHANGED sinceVars
  /\ UNCHANGED flowVars
  /\ UNCHANGED recoveryVars
  /\ UNCHANGED lockVars
  /\ UNCHANGED rateVars
  /\ UNCHANGED cacheVars
  /\ UNCHANGED serverVars
  /\ UNCHANGED pagingVars

\* the print view renders its list, sorted by urgency: the sort works in
\* place on the filtered list, which is data.customers itself when no
\* filter applies
RenderPrint ==
  /\ response.done
  /\ \E filter \in ShownFilters :
       LET filtered == printFilter(response.customers, filter, now)
           sorted == sortByUrgency(filtered)
       IN  view' = [done |-> TRUE, page |-> "print", filter |-> filter,
                    at |-> now, sortInput |-> sorted, shown |-> sorted,
                    data |-> IF printAliasesData(filter) THEN sorted
                             ELSE response.customers,
                    cardStatus |->
                      [i \in 1..Len(sorted) |-> getCardStatus(sorted[i])]]
  /\ UNCHANGED <<now, dbCustomers, dbCards, response>>
  /\ UNCHANGED cardVars
  /\ UNCHANGED clientVars
  /\ UNCHANGED syncVars
  /\ UNCHANGED popVars
  /\ UNCHANGED printed
  /\ UNCHANGED sinceVars
  /\ UNCHANGED flowVars
  /\ UNCHANGED recoveryVars
  /\ UNCHANGED lockVars
  /\ UNCHANGED rateVars
  /\ UNCHANGED cacheVars
  /\ UNCHANGED serverVars
  /\ UNCHANGED pagingVars

\* time passes to the next instant at which pages are requested
PageTick ==
  /\ \E t \in PageInstants :
       /\ t > now
       /\ \A u \in PageInstants : u > now => t <= u
       /\ now' = t
  /\ response' = NotLoaded
  /\ view' = NotRendered
  /\ UNCHANGED <<dbCustomers, dbCards>>
  /\ UNCHANGED cardVars
  /\ UNCHANGED clientVars
  /\ UNCHANGED syncVars
  /\ UNCHANGED popVars
  /\ UNCHANGED printed
  /\ UNCHANGED sinceVars
  /\ UNCHANGED flowVars
  /\ UNCHANGED recoveryVars
  /\ UNCHANGED lockVars
  /\ UNCHANGED rateVars
  /\ UNCHANGED cacheVars
  /\ UNCHANGED serverVars
  /\ UNCHANGED pagingVars

NextPage ==
  PutCustomer \/ PutCard \/ ApiCustomers \/ RenderMain \/ RenderPrint
    \/ PageTick

SpecPage == InitPage /\ [][NextPage]_vars

TypeOK ==
  /\ now \in Instants
  /\ expCode \in Codes

-----------------------------------------------------------------------------
(* Test mode (TEST_MODE.md): the analyzer run with the clock at            *)
(* 2026-11-15                                                               *)

\* the local instants of 2026-11-14 and 2026-11-15: new Date('2026-11-15')
\* is midnight UTC, which falls on one of the two local days
TestModeStart == DaysFromCivil(2026, 11, 14) * TicksPerDay
TestModeDay == DaysFromCivil(2026, 11, 15) * TicksPerDay
TestModeInstants == TestModeStart .. (TestModeDay + TicksPerDay - 1)

\* the codes of the test cards: every month of 2026 and 2027, and 01/25
TestCodes ==
  {Code(m \o y) : m \in MonthStrings, y \in {<<"2", "6">>, <<"2", "7">>}}
    \cup {Code(<<"0", "1", "2", "5">>)}

InitTestMode ==
  /\ now \in TestModeInstants
  /\ expCode \in TestCodes
  /\ analysis = NotRun
  /\ loaderAnalysis = NotRun
  /\ dbCustomers = {}
  /\ dbCards = <<>>
  /\ response = NotLoaded
  /\ view = NotRendered
  /\ clientCustomer = NoClient
  /\ clientAnalysis = NoAnalysis
  /\ clientStatus = NotRun
  /\ population = <<>>
  /\ classified = NotRun
  /\ summary = NotRun
  /\ statused = NotRun
  /\ actionList = NotRun
  /\ upstream = NoUpstream
  /\ syncDb = EmptyDb
  /\ syncLog = NoSync
  /\ syncResponse = NotLoaded
  /\ printed = NotRendered
  /\ SinceIdle
  /\ FlowIdle
  /\ RecoveryIdle
  /\ LockIdle
  /\ RateIdle
  /\ CacheIdle
  /\ ServerIdle
  /\ PagingIdle

\* time passes within the two days
TestModeTick ==
  /\ now + 1 \in TestModeInstants
  /\ now' = now + 1
  /\ analysis' = NotRun
  /\ loaderAnalysis' = NotRun
  /\ UNCHANGED expCode
  /\ UNCHANGED pageVars
  /\ UNCHANGED popVars
  /\ UNCHANGED clientVars
  /\ UNCHANGED syncVars
  /\ UNCHANGED printed
  /\ UNCHANGED sinceVars
  /\ UNCHANGED flowVars
  /\ UNCHANGED recoveryVars
  /\ UNCHANGED lockVars
  /\ UNCHANGED rateVars
  /\ UNCHANGED cacheVars
  /\ UNCHANGED serverVars
  /\ UNCHANGED pagingVars

\* another test card is looked at
ReplaceTestCard ==
  /\ \E c \in TestCodes : c # expCode /\ expCode' = c
  /\ analysis' = NotRun
  /\ loaderAnalysis' = NotRun
  /\ UNCHANGED now
  /\ UNCHANGED pageVars
  /\ UNCHANGED popVars
  /\ UNCHANGED clientVars
  /\ UNCHANGED syncVars
  /\ UNCHANGED printed
  /\ UNCHANGED sinceVars
  /\ UNCHANGED flowVars
  /\ UNCHANGED recoveryVars
  /\ UNCHANGED lockVars
  /\ UNCHANGED rateVars
  /\ UNCHANGED cacheVars
  /\ UNCHANGED serverVars
  /\ UNCHANGED pagingVars

NextTestMode ==
  TestModeTick \/ ReplaceTestCard \/ AnalyzeCard \/ LoaderAnalyzeCard

SpecTestMode == InitTestMode /\ [][NextTestMode]_vars

-----------------------------------------------------------------------------
(* Inputs of the client-status specification                               *)

\* the instants of the client-status analysis: 2025-12-25 00:00 and the
\* tick after it
FirstClientInstant == DaysFromCivil(2025, 12, 25) * TicksPerDay

ClientInstants == {FirstClientInstant, FirstClientInstant + 1}

\* createdTime values: missing, 0, and ages of 10, 180, 180/181, 365 and
\* 365/366 days at the two instants
CreatedTimes ==
  {JsNull, Num(0),
   Num(FirstClientInstant - 10 * TicksPerDay),
   Num(FirstClientInstant - 180 * TicksPerDay),
   Num(FirstClientInstant - 181 * TicksPerDay + 1),
   Num(FirstClientInstant - 365 * TicksPerDay),
   Num(FirstClientInstant - 366 * TicksPerDay + 1)}

ClientSinceValues == {JsNull, Num(FirstClientInstant - 400 * TicksPerDay)}

\* codes of a platform customer's cards: none, 11/25 (expired), 12/25
\* (expiring soon), 06/26 (valid)
ClientCodes ==
  {NoCode, Code(<<"1", "1", "2", "5">>), Code(<<"1", "2", "2", "5">>),
   Code(<<"0", "6", "2", "6">>)}

ClientCardLists ==
  UNION {[1..n -> {[id |-> 0, customerId |-> "client", expirationDate |-> c] :
                     c \in ClientCodes}] : n \in 0..MaxCards}

ClientCustomers ==
  {[createdTime |-> ct, customerSince |-> cs, cards |-> cards] :
     ct \in CreatedTimes, cs \in ClientSinceValues,
     cards \in {NoCards} \cup {FlatCards(l) : l \in ClientCardLists}
                 \cup {NestedCards(l) : l \in ClientCardLists}}

\* classification lists a caller may pass that were not computed from the
\* customer's own cards
SuppliedStatuses ==
  {<<>>, <<"expired">>, <<"expiring-soon">>, <<"valid">>,
   <<"expiring-soon", "expired">>}

suppliedAnalysis(statuses) ==
  [i \in 1..Len(statuses) |->
     [card |-> [id |-> 0, customerId |-> "other", expirationDate |-> NoCode],
      expiration |-> [status |-> statuses[i],
                      daysUntilExpiration |-> Num(0),
                      expirationDate |-> Num(0),
                      warningLevel |-> "none"]]]

-----------------------------------------------------------------------------
(* Client-status specification: one platform customer, analyzeCustomers    *)
(* and analyzeClientStatus                                                  *)

InitClient ==
  /\ now \in ClientInstants
  /\ expCode = NoCode
  /\ analysis = NotRun
  /\ loaderAnalysis = NotRun
  /\ dbCustomers = {}
  /\ dbCards = <<>>
  /\ response = NotLoaded
  /\ view = NotRendered
  /\ clientCustomer \in ClientCustomers
  /\ clientAnalysis = NoAnalysis
  /\ clientStatus = NotRun
  /\ population = <<>>
  /\ classified = NotRun
  /\ summary = NotRun
  /\ statused = NotRun
  /\ actionList = NotRun
  /\ upstream = NoUpstream
  /\ syncDb = EmptyDb
  /\ syncLog = NoSync
  /\ syncResponse = NotLoaded
  /\ printed = NotRendered
  /\ SinceIdle
  /\ FlowIdle
  /\ RecoveryIdle
  /\ LockIdle
  /\ RateIdle
  /\ CacheIdle
  /\ ServerIdle
  /\ PagingIdle

\* CardExpirationAnalyzer.analyzeCustomers([customer])
AnalyzeCustomers ==
  /\ clientAnalysis' =
       [present |-> TRUE, list |-> expirationAnalysisOf(clientCustomer, now)]
  /\ clientStatus' = NotRun
  /\ UNCHANGED <<now, clientCustomer>>
  /\ UNCHANGED cardVars
  /\ UNCHANGED pageVars
  /\ UNCHANGED popVars
  /\ UNCHANGED syncVars
  /\ UNCHANGED printed
  /\ UNCHANGED sinceVars
  /\ UNCHANGED flowVars
  /\ UNCHANGED recoveryVars
  /\ UNCHANGED lockVars
  /\ UNCHANGED rateVars
  /\ UNCHANGED cacheVars
  /\ UNCHANGED serverVars
  /\ UNCHANGED pagingVars

\* the caller holds a classification list of its own making
SupplyAnalysis ==
  /\ \E statuses \in SuppliedStatuses :
       clientAnalysis' = [present |-> TRUE, list |-> suppliedAnalysis(statuses)]
  /\ clientStatus' = NotRun
  /\ UNCHANGED <<now, clientCustomer>>
  /\ UNCHANGED cardVars
  /\ UNCHANGED pageVars
  /\ UNCHANGED popVars
  /\ UNCHANGED syncVars
  /\ UNCHANGED printed
  /\ UNCHANGED sinceVars
  /\ UNCHANGED flowVars
  /\ UNCHANGED recoveryVars
  /\ UNCHANGED lockVars
  /\ UNCHANGED rateVars
  /\ UNCHANGED cacheVars
  /\ UNCHANGED serverVars
  /\ UNCHANGED pagingVars

\* ClientStatusAnalyzer.analyzeClientStatus(customer, expirationAnalysis)
AnalyzeClientStatus ==
  /\ clientStatus' =
       [done |-> TRUE, at |-> now,
        result |-> analyzeClientStatus(clientCustomer, clientAnalysis, now)]
  /\ UNCHANGED <<now, clientCustomer, clientAnalysis>>
  /\ UNCHANGED cardVars
  /\ UNCHANGED pageVars
  /\ UNCHANGED popVars
  /\ UNCHANGED syncVars
  /\ UNCHANGED printed
  /\ UNCHANGED sinceVars
  /\ UNCHANGED flowVars
  /\ UNCHANGED recoveryVars
  /\ UNCHANGED lockVars
  /\ UNCHANGED rateVars
  /\ UNCHANGED cacheVars
  /\ UNCHANGED serverVars
  /\ UNCHANGED pagingVars

\* time passes; the lists and results computed before are gone
ClientTick ==
  /\ now + 1 \in ClientInstants
  /\ now' = now + 1
  /\ clientAnalysis' = NoAnalysis
  /\ clientStatus' = NotRun
  /\ UNCHANGED clientCustomer
  /\ UNCHANGED cardVars
  /\ UNCHANGED pageVars
  /\ UNCHANGED popVars
  /\ UNCHANGED syncVars
  /\ UNCHANGED printed
  /\ UNCHANGED sinceVars
  /\ UNCHANGED flowVars
  /\ UNCHANGED recoveryVars
  /\ UNCHANGED lockVars
  /\ UNCHANGED rateVars
  /\ UNCHANGED cacheVars
  /\ UNCHANGED serverVars
  /\ UNCHANGED pagingVars

NextClient ==
  AnalyzeCustomers \/ SupplyAnalysis \/ AnalyzeClientStatus \/ ClientTick

SpecClient == InitClient /\ [][NextClient]_vars

-----------------------------------------------------------------------------
(* Inputs of the customer-list specification                               *)

MaxCustomers == 2

PopCard(code) == [id |-> 0, customerId |-> "client", expirationDate |-> code]

\* 11/25 (expired), 12/25 (expiring soon), 02/26 (expiring later) at the
\* first client instant
ExpiredCode == Code(<<"1", "1", "2", "5">>)
SoonCode == Code(<<"1", "2", "2", "5">>)
LaterCode == Code(<<"0", "2", "2", "6">>)

PopCustomer(createdTime, cards) ==
  [createdTime |-> createdTime, customerSince |-> JsNull, cards |-> cards]

\* customers of 10, 200 and 400 days and without a timestamp, without
\* cards, with a flat card array and with the nested wrapper
PopCustomers ==
  LET recent == Num(FirstClientInstant - 10 * TicksPerDay)
      older == Num(FirstClientInstant - 200 * TicksPerDay)
      old == Num(FirstClientInstant - 400 * TicksPerDay)
  IN  {PopCustomer(JsNull, NoCards),
       PopCustomer(JsNull, FlatCards(<<PopCard(ExpiredCode)>>)),
       PopCustomer(recent, NoCards),
       PopCustomer(recent, FlatCards(<<>>)),
       PopCustomer(older, NoCards),
       PopCustomer(old, NoCards),
       PopCustomer(recent, FlatCards(<<PopCard(ExpiredCode),
                                       PopCard(ExpiredCode)>>)),
       PopCustomer(recent, FlatCards(<<PopCard(ExpiredCode),
                                       PopCard(SoonCode)>>)),
       PopCustomer(recent, FlatCards(<<PopCard(SoonCode), PopCard(NoCode)>>)),
       PopCustomer(recent, FlatCards(<<PopCard(LaterCode)>>)),
       PopCustomer(recent, FlatCards(<<PopCard(NoCode)>>)),
       PopCustomer(recent, NestedCards(<<PopCard(ExpiredCode)>>)),
       PopCustomer(recent, NestedCards(<<PopCard(LaterCode),
                                         PopCard(NoCode)>>))}

Populations == UNION {[1..n -> PopCustomers] : n \in 0..MaxCustomers}

-----------------------------------------------------------------------------
(* Customer-list specification: a population goes through analyzeCustomers, *)
(* generateSummary, analyzeCustomersWithStatus and                          *)
(* getCustomersRequiringAction                                              *)

InitPopulation ==
  /\ now = FirstClientInstant
  /\ expCode = NoCode
  /\ analysis = NotRun
  /\ loaderAnalysis = NotRun
  /\ dbCustomers = {}
  /\ dbCards = <<>>
  /\ response = NotLoaded
  /\ view = NotRendered
  /\ clientCustomer = NoClient
  /\ clientAnalysis = NoAnalysis
  /\ clientStatus = NotRun
  /\ population \in Populations
  /\ classified = NotRun
  /\ summary = NotRun
  /\ statused = NotRun
  /\ actionList = NotRun
  /\ upstream = NoUpstream
  /\ syncDb = EmptyDb
  /\ syncLog = NoSync
  /\ syncResponse = NotLoaded
  /\ printed = NotRendered
  /\ SinceIdle
  /\ FlowIdle
  /\ RecoveryIdle
  /\ LockIdle
  /\ RateIdle
  /\ CacheIdle
  /\ ServerIdle
  /\ PagingIdle

\* an in-place variant that stores the analysis on the customers it was
\* given
AnalyzePopulation_InPlace ==
  /\ ~classified.done
  /\ classified' = [done |-> TRUE, list |-> analyzeCustomers(population, now)]
  /\ population' = analyzeCustomers(population, now)
  /\ UNCHANGED <<now, summary, statused, actionList>>
  /\ UNCHANGED cardVars
  /\ UNCHANGED pageVars
  /\ UNCHANGED clientVars
  /\ UNCHANGED syncVars
  /\ UNCHANGED printed
  /\ UNCHANGED sinceVars
  /\ UNCHANGED flowVars
  /\ UNCHANGED recoveryVars
  /\ UNCHANGED lockVars
  /\ UNCHANGED rateVars
  /\ UNCHANGED cacheVars
  /\ UNCHANGED serverVars
  /\ UNCHANGED pagingVars

\* analyzeCustomers(customers): map and spread build new objects, nothing
\* is assigned to the customers given
AnalyzePopulation ==
  /\ ~classified.done
  /\ classified' = [done |-> TRUE, list |-> analyzeCustomers(population, now)]
  /\ population' = population
  /\ UNCHANGED <<now, summary, statused, actionList>>
  /\ UNCHANGED cardVars
  /\ UNCHANGED pageVars
  /\ UNCHANGED clientVars
  /\ UNCHANGED syncVars
  /\ UNCHANGED printed
  /\ UNCHANGED sinceVars
  /\ UNCHANGED flowVars
  /\ UNCHANGED recoveryVars
  /\ UNCHANGED lockVars
  /\ UNCHANGED rateVars
  /\ UNCHANGED cacheVars
  /\ UNCHANGED serverVars
  /\ UNCHANGED pagingVars

\* generateSummary(customers) on the analysed customers
GenerateSummary ==
  /\ classified.done
  /\ ~summary.done
  /\ summary' = [done |-> TRUE, result |-> generateSummary(classified.list)]
  /\ classified' = classified
  /\ UNCHANGED <<now, population, statused, actionList>>
  /\ UNCHANGED cardVars
  /\ UNCHANGED pageVars
  /\ UNCHANGED clientVars
  /\ UNCHANGED syncVars
  /\ UNCHANGED printed
  /\ UNCHANGED sinceVars
  /\ UNCHANGED flowVars
  /\ UNCHANGED recoveryVars
  /\ UNCHANGED lockVars
  /\ UNCHANGED rateVars
  /\ UNCHANGED cacheVars
  /\ UNCHANGED serverVars
  /\ UNCHANGED pagingVars

\* analyzeCustomersWithStatus(customersWithExpiration)
AnalyzeWithStatus ==
  /\ classified.done
  /\ ~statused.done
  /\ statused' =
       [done |-> TRUE, list |-> analyzeCustomersWithStatus(classified.list, now)]
  /\ classified' = classified
  /\ UNCHANGED <<now, population, summary, actionList>>
  /\ UNCHANGED cardVars
  /\ UNCHANGED pageVars
  /\ UNCHANGED clientVars
  /\ UNCHANGED syncVars
  /\ UNCHANGED printed
  /\ UNCHANGED sinceVars
  /\ UNCHANGED flowVars
  /\ UNCHANGED recoveryVars
  /\ UNCHANGED lockVars
  /\ UNCHANGED rateVars
  /\ UNCHANGED cacheVars
  /\ UNCHANGED serverVars
  /\ UNCHANGED pagingVars

\* getCustomersRequiringAction(customers)
RequiringAction ==
  /\ statused.done
  /\ ~actionList.done
  /\ actionList' =
       [done |-> TRUE, list |-> getCustomersRequiringAction(statused.list)]
  /\ statused' = statused
  /\ UNCHANGED <<now, population, classified, summary>>
  /\ UNCHANGED cardVars
  /\ UNCHANGED pageVars
  /\ UNCHANGED clientVars
  /\ UNCHANGED syncVars
  /\ UNCHANGED printed
  /\ UNCHANGED sinceVars
  /\ UNCHANGED flowVars
  /\ UNCHANGED recoveryVars
  /\ UNCHANGED lockVars
  /\ UNCHANGED rateVars
  /\ UNCHANGED cacheVars
  /\ UNCHANGED serverVars
  /\ UNCHANGED pagingVars

NextPopulation ==
  AnalyzePopulation \/ GenerateSummary \/ AnalyzeWithStatus \/ RequiringAction

SpecPopulation == InitPopulation /\ [][NextPopulation]_vars

-----------------------------------------------------------------------------
(* Inputs of the sync specification                                        *)

UpstreamCard(id, code) == [id |-> id, expirationDate |-> code]

UpstreamCustomer(id, name, cards) ==
  [id |-> id, businessName |-> Name(<<name>>), cards |-> cards]

\* what a merchant account may hold: customer x without cards, with one or
\* with two, and (in the USD account) customer y with a card; the two
\* accounts use the id x independently of each other
UpstreamOptions(currency) ==
  IF currency = "USD"
  THEN LET u1 == UpstreamCard("u1", ExpiredCode)
           u2 == UpstreamCard("u2", LaterCode)
           u3 == UpstreamCard("u3", SoonCode)
           xs == {<<>>, <<UpstreamCustomer("x", "A", <<>>)>>,
                  <<UpstreamCustomer("x", "A", <<u1>>)>>,
                  <<UpstreamCustomer("x", "A", <<u1, u2>>)>>}
           ys == {<<>>, <<UpstreamCustomer("y", "B", <<u3>>)>>}
       IN  {x \o y : x \in xs, y \in ys}
  ELSE LET c1 == UpstreamCard("c1", SoonCode)
       IN  {<<>>, <<UpstreamCustomer("x", "C", <<>>)>>,
            <<UpstreamCustomer("x", "C", <<c1>>)>>}

\* the tables as seeded for tests: one CUST_ customer with a card
SeededDb ==
  [customers |-> {[id |-> "CUST_1", merchantCurrency |-> "USD",
                   businessName |-> Name(<<"D">>)]},
   cards |-> {[id |-> "CARD_1", customerId |-> "CUST_1",
               expirationDate |-> ExpiredCode]}]

-----------------------------------------------------------------------------
(* Sync specification: the platform's merchant accounts, syncAllCustomers   *)
(* and /api/customers on what it stored                                     *)

InitSync ==
  /\ now = FirstClientInstant
  /\ expCode = NoCode
  /\ analysis = NotRun
  /\ loaderAnalysis = NotRun
  /\ dbCustomers = {}
  /\ dbCards = <<>>
  /\ response = NotLoaded
  /\ view = NotRendered
  /\ clientCustomer = NoClient
  /\ clientAnalysis = NoAnalysis
  /\ clientStatus = NotRun
  /\ population = <<>>
  /\ classified = NotRun
  /\ summary = NotRun
  /\ statused = NotRun
  /\ actionList = NotRun
  /\ upstream \in [{"USD", "CAD"} -> UNION {UpstreamOptions(m) : m \in {"USD", "CAD"}}]
  /\ \A m \in {"USD", "CAD"} : upstream[m] \in UpstreamOptions(m)
  /\ syncDb = SeededDb
  /\ syncLog = NoSync
  /\ syncResponse = NotLoaded
  /\ printed = NotRendered
  /\ SinceIdle
  /\ FlowIdle
  /\ RecoveryIdle
  /\ LockIdle
  /\ RateIdle
  /\ CacheIdle
  /\ ServerIdle
  /\ PagingIdle

\* customers and cards are added to or removed from a merchant account on
\* the platform
PlatformChange ==
  /\ \E m \in {"USD", "CAD"} :
       \E u \in UpstreamOptions(m) :
         /\ u # upstream[m]
         /\ upstream' = [upstream EXCEPT ![m] = u]
  /\ UNCHANGED <<now, syncDb, syncLog, syncResponse>>
  /\ UNCHANGED cardVars
  /\ UNCHANGED pageVars
  /\ UNCHANGED popVars
  /\ UNCHANGED clientVars
  /\ UNCHANGED printed
  /\ UNCHANGED sinceVars
  /\ UNCHANGED flowVars
  /\ UNCHANGED recoveryVars
  /\ UNCHANGED lockVars
  /\ UNCHANGED rateVars
  /\ UNCHANGED cacheVars
  /\ UNCHANGED serverVars
  /\ UNCHANGED pagingVars

\* CloverSyncService.syncAllCustomers(); the fetch of any merchant may fail
SyncAllCustomers ==
  /\ \E failing \in SUBSET {"USD", "CAD"} :
       /\ syncDb' = syncAllCustomers(syncDb, upstream, failing)
       /\ syncLog' =
            [done |-> TRUE, failing |-> failing,
             lastOk |-> [m \in {"USD", "CAD"} |->
                           IF m \in failing THEN syncLog.lastOk[m]
                           ELSE [ok |-> TRUE, customers |-> upstream[m]]]]
  /\ syncResponse' = NotLoaded
  /\ UNCHANGED <<now, upstream>>
  /\ UNCHANGED cardVars
  /\ UNCHANGED pageVars
  /\ UNCHANGED popVars
  /\ UNCHANGED clientVars
  /\ UNCHANGED printed
  /\ UNCHANGED sinceVars
  /\ UNCHANGED flowVars
  /\ UNCHANGED recoveryVars
  /\ UNCHANGED lockVars
  /\ UNCHANGED rateVars
  /\ UNCHANGED cacheVars
  /\ UNCHANGED serverVars
  /\ UNCHANGED pagingVars

\* GET /api/customers?all=true on the synced tables
SyncApiCustomers ==
  /\ syncResponse' = [done |-> TRUE, customers |-> apiCustomersOf(syncDb)]
  /\ UNCHANGED <<now, upstream, syncDb, syncLog>>
  /\ UNCHANGED cardVars
  /\ UNCHANGED pageVars
  /\ UNCHANGED popVars
  /\ UNCHANGED clientVars
  /\ UNCHANGED printed
  /\ UNCHANGED sinceVars
  /\ UNCHANGED flowVars
  /\ UNCHANGED recoveryVars
  /\ UNCHANGED lockVars
  /\ UNCHANGED rateVars
  /\ UNCHANGED cacheVars
  /\ UNCHANGED serverVars
  /\ UNCHANGED pagingVars

NextSync == PlatformChange \/ SyncAllCustomers \/ SyncApiCustomers

SpecSync == InitSync /\ [][NextSync]_vars

-----------------------------------------------------------------------------
(* Inputs of the print-link specification                                  *)

SearchTerms == {<<>>, <<"a">>, <<" ">>, <<"B">>}

\* customers A (since the cleanup date), B and a customer whose business
\* name is blank
LinkCustomers ==
  {[id |-> "c1", businessName |-> Name(<<"A">>),
    customerSince |-> Num(cleanupDate)],
   [id |-> "c2", businessName |-> Name(<<"B">>), customerSince |-> JsNull],
   [id |-> "c3", businessName |-> Name(<<" ">>), customerSince |-> JsNull]}

\* the cards they may have: 06/25 (expired), 03/26 (valid), 12/25
\* (expiring soon)
LinkCards ==
  {[customerId |-> "c1", expirationDate |-> Code(<<"0", "6", "2", "5">>)],
   [customerId |-> "c1", expirationDate |-> Code(<<"0", "3", "2", "6">>)],
   [customerId |-> "c2", expirationDate |-> Code(<<"0", "3", "2", "6">>)],
   [customerId |-> "c2", expirationDate |-> Code(<<"1", "2", "2", "5">>)]}

LinkCardLists ==
  {<<>>} \cup {<<[id |-> 1, customerId |-> a.customerId,
                  expirationDate |-> a.expirationDate]>> : a \in LinkCards}
    \cup {<<[id |-> 1, customerId |-> a.customerId,
             expirationDate |-> a.expirationDate],
            [id |-> 2, customerId |-> b.customerId,
             expirationDate |-> b.expirationDate]>> :
            a \in LinkCards, b \in LinkCards}

-----------------------------------------------------------------------------
(* Print-link specification: the main page shows a list and its print      *)
(* button opens the print view with the same filter and search term        *)

InitPrintLink ==
  /\ now = FirstPageInstant
  /\ expCode = NoCode
  /\ analysis = NotRun
  /\ loaderAnalysis = NotRun
  /\ dbCustomers \in SUBSET LinkCustomers
  /\ dbCards \in LinkCardLists
  /\ \A i \in 1..Len(dbCards) :
       \E r \in dbCustomers : r.id = dbCards[i].customerId
  /\ response = NotLoaded
  /\ view = NotRendered
  /\ clientCustomer = NoClient
  /\ clientAnalysis = NoAnalysis
  /\ clientStatus = NotRun
  /\ population = <<>>
  /\ classified = NotRun
  /\ summary = NotRun
  /\ statused = NotRun
  /\ actionList = NotRun
  /\ upstream = NoUpstream
  /\ syncDb = EmptyDb
  /\ syncLog = NoSync
  /\ syncResponse = NotLoaded
  /\ printed = NotRendered
  /\ SinceIdle
  /\ FlowIdle
  /\ RecoveryIdle
  /\ LockIdle
  /\ RateIdle
  /\ CacheIdle
  /\ ServerIdle
  /\ PagingIdle

\* the main page shows displayCustomers for the chosen filter and search
\* term
ShowMain ==
  /\ response.done
  /\ \E filter \in FilterTypes, term \in SearchTerms :
       LET filtered ==
             displaySearch(displayFilter(response.customers, filter, now), term)
       IN  view' = [done |-> TRUE, page |-> "main", filter |-> filter,
                    term |-> term, at |-> now, sortInput |-> filtered,
                    shown |-> sortByUrgency(filtered),
                    data |-> response.customers, cardStatus |-> <<>>]
  /\ printed' = NotRendered
  /\ UNCHANGED <<now, dbCustomers, dbCards, response>>
  /\ UNCHANGED cardVars
  /\ UNCHANGED clientVars
  /\ UNCHANGED popVars
  /\ UNCHANGED syncVars
  /\ UNCHANGED sinceVars
  /\ UNCHANGED flowVars
  /\ UNCHANGED recoveryVars
  /\ UNCHANGED lockVars
  /\ UNCHANGED rateVars
  /\ UNCHANGED cacheVars
  /\ UNCHANGED serverVars
  /\ UNCHANGED pagingVars

\* the print button: /customers/print?filter=...&search=...&sort=... is
\* opened and renders the same data
OpenPrint ==
  /\ view.done
  /\ view.page = "main"
  /\ ~printed.done
  /\ LET filtered ==
           printSearch(printFilter(response.customers, view.filter, now),
                       view.term)
     IN  printed' = [done |-> TRUE, filter |-> view.filter,
                     term |-> view.term, main |-> view.shown,
                     shown |-> sortByUrgency(filtered)]
  /\ UNCHANGED <<now, dbCustomers, dbCards, response, view>>
  /\ UNCHANGED cardVars
  /\ UNCHANGED clientVars
  /\ UNCHANGED popVars
  /\ UNCHANGED syncVars
  /\ UNCHANGED sinceVars
  /\ UNCHANGED flowVars
  /\ UNCHANGED recoveryVars
  /\ UNCHANGED lockVars
  /\ UNCHANGED rateVars
  /\ UNCHANGED cacheVars
  /\ UNCHANGED serverVars
  /\ UNCHANGED pagingVars

NextPrintLink == ApiCustomers \/ ShowMain \/ OpenPrint

SpecPrintLink == InitPrintLink /\ [][NextPrintLink]_vars

-----------------------------------------------------------------------------
(* The readers of customerSince: the customer card of the main page        *)
(* (app/routes/customers.tsx), the CSV export (app/routes/api.export.ts)   *)

ExportNewDays == 180
ThousandMs == 1000

\* formatDaysAgo(timestamp) of CompactCustomerCard at the instant t
formatDaysAgo(timestamp, t) ==
  IF ~Truthy(timestamp) THEN [kind |-> "null", n |-> 0]
  ELSE LET days == (t - timestamp.v) \div TicksPerDay
       IN  IF days = 0 THEN [kind |-> "today", n |-> 0]
           ELSE IF days = 1 THEN [kind |-> "j", n |-> 1]
           ELSE IF days < 30 THEN [kind |-> "j", n |-> days]
           ELSE IF days < 365 THEN [kind |-> "m", n |-> days \div 30]
           ELSE [kind |-> "a", n |-> days \div 365]

\* the export's filter callback for status = action-required, on one
\* customer of the /api/customers response.  The callback reads the
\* properties has_expired, has_expiring_soon, customer_since and
\* total_cards; a property the object does not have is undefined (falsy).
exportActionRequired(customer, t) ==
  LET has(name) == name \in DOMAIN customer
  IN  \/ has("has_expired") /\ customer.has_expired
      \/ has("has_expiring_soon") /\ customer.has_expiring_soon
      \/ /\ has("customer_since") /\ Truthy(customer.customer_since)
         /\ t - customer.customer_since.v * ThousandMs
              < ExportNewDays * TicksPerDay
         /\ has("total_cards") /\ customer.total_cards = 0

-----------------------------------------------------------------------------
(* Specification of the customerSince readers: one stored customer, with   *)
(* or without a card that is far from its expiration, read by the main     *)
(* page, the print view, the client-status analyzer, the export and the    *)
(* customer card                                                           *)

earlierVars == <<now, cardVars, pageVars, clientVars, popVars, syncVars, printed>>

\* 2026-03-01 and the day after
SinceStart == DaysFromCivil(2026, 3, 1) * TicksPerDay
SinceInstants == SinceStart .. SinceStart + TicksPerDay

\* ages in days around every threshold the readers use
SinceAgeDays == {0, 1, 2, 29, 30, 89, 90, 91, 179, 180, 181, 223, 224, 365}

StoredSince ==
  {JsNull} \cup {Num(SinceStart - d * TicksPerDay + e) :
                   d \in SinceAgeDays, e \in {0, 1}}

\* a card valid until 2030-12-31
SinceCard ==
  [id |-> 1, customerId |-> "c1",
   expirationDate |-> Code(<<"1", "2", "3", "0">>)]

Readers == {"main", "print", "status", "export", "card"}

NotRead == [r \in Readers |-> NotRun]

\* the stored customer as /api/customers returns it at the instant t
sinceResponse(t) ==
  customerWithAnalysis(sinceRow.customer, sinceRow.cards, t)

\* the stored customer as the platform client returns it
sincePlatform ==
  [createdTime |-> JsNull,
   customerSince |-> sinceRow.customer.customerSince,
   cards |-> IF sinceRow.cards = <<>> THEN NoCards
             ELSE FlatCards(sinceRow.cards)]

InitSince ==
  /\ now \in SinceInstants
  /\ expCode = NoCode
  /\ analysis = NotRun
  /\ loaderAnalysis = NotRun
  /\ dbCustomers = {}
  /\ dbCards = <<>>
  /\ response = NotLoaded
  /\ view = NotRendered
  /\ clientCustomer = NoClient
  /\ clientAnalysis = NoAnalysis
  /\ clientStatus = NotRun
  /\ population = <<>>
  /\ classified = NotRun
  /\ summary = NotRun
  /\ statused = NotRun
  /\ actionList = NotRun
  /\ upstream = NoUpstream
  /\ syncDb = EmptyDb
  /\ syncLog = NoSync
  /\ syncResponse = NotLoaded
  /\ printed = NotRendered
  /\ \E since \in StoredSince, cards \in {<<>>, <<SinceCard>>} :
       sinceRow = [done |-> TRUE,
                   customer |-> [id |-> "c1", businessName |-> Name(<<"A">>),
                                 customerSince |-> since],
                   cards |-> cards]
  /\ sinceAges = NotRead
  /\ FlowIdle
  /\ RecoveryIdle
  /\ LockIdle
  /\ RateIdle
  /\ CacheIdle
  /\ ServerIdle
  /\ PagingIdle

Read(reader, value) ==
  /\ sinceAges' = [sinceAges EXCEPT
                     ![reader] = [done |-> TRUE, at |-> now, value |-> value]]
  /\ UNCHANGED sinceRow
  /\ UNCHANGED earlierVars

\* the main page's action-required list holds the customer or not
MainReadsSince == Read("main", actionRequired(sinceResponse(now), now))
  /\ UNCHANGED flowVars
  /\ UNCHANGED recoveryVars
  /\ UNCHANGED lockVars
  /\ UNCHANGED rateVars
  /\ UNCHANGED cacheVars
  /\ UNCHANGED serverVars
  /\ UNCHANGED pagingVars

\* the same for the print view
PrintReadsSince == Read("print", printActionRequired(sinceResponse(now), now))
  /\ UNCHANGED flowVars
  /\ UNCHANGED recoveryVars
  /\ UNCHANGED lockVars
  /\ UNCHANGED rateVars
  /\ UNCHANGED cacheVars
  /\ UNCHANGED serverVars
  /\ UNCHANGED pagingVars

\* analyzeClientStatus(customer).daysOld
StatusReadsSince ==
  Read("status", analyzeClientStatus(sincePlatform, NoAnalysis, now).daysOld)
  /\ UNCHANGED flowVars
  /\ UNCHANGED recoveryVars
  /\ UNCHANGED lockVars
  /\ UNCHANGED rateVars
  /\ UNCHANGED cacheVars
  /\ UNCHANGED serverVars
  /\ UNCHANGED pagingVars

\* the export with status = action-required keeps the customer or not
ExportReadsSince ==
  Read("export", exportActionRequired(sinceResponse(now), now))
  /\ UNCHANGED flowVars
  /\ UNCHANGED recoveryVars
  /\ UNCHANGED lockVars
  /\ UNCHANGED rateVars
  /\ UNCHANGED cacheVars
  /\ UNCHANGED serverVars
  /\ UNCHANGED pagingVars

\* the customer card shows the customer's age
CardReadsSince ==
  Read("card", formatDaysAgo(sinceResponse(now).customerSince, now))
  /\ UNCHANGED flowVars
  /\ UNCHANGED recoveryVars
  /\ UNCHANGED lockVars
  /\ UNCHANGED rateVars
  /\ UNCHANGED cacheVars
  /\ UNCHANGED serverVars
  /\ UNCHANGED pagingVars

\* time passes; the pages are requested again
SinceTick ==
  /\ now < SinceStart + TicksPerDay
  /\ now' = now + 1
  /\ sinceAges' = NotRead
  /\ UNCHANGED sinceRow
  /\ UNCHANGED <<cardVars, pageVars, clientVars, popVars, syncVars, printed>>
  /\ UNCHANGED flowVars
  /\ UNCHANGED recoveryVars
  /\ UNCHANGED lockVars
  /\ UNCHANGED rateVars
  /\ UNCHANGED cacheVars
  /\ UNCHANGED serverVars
  /\ UNCHANGED pagingVars

NextSince ==
  \/ MainReadsSince \/ PrintReadsSince \/ StatusReadsSince
  \/ ExportReadsSince \/ CardReadsSince \/ SinceTick

SpecSince == InitSince /\ [][NextSince]_vars

-----------------------------------------------------------------------------
(* The sync-and-email workflow (scripts/sync-and-email.ts) and the sync    *)
(* command it runs (scripts/sync.ts)                                       *)

\* what a run of syncAllCustomers under `npm run sync` can come to: a result
\* with success true, a result with errors, or an exception out of the
\* service (constructor, getStats)
SyncRuns == {"success", "errors", "fatal"}

\* exit status of scripts/sync.ts: only the catch blocks call
\* process.exit(1)
syncCliExit(run) == IF run = "fatal" THEN 1 ELSE 0

\* output of a pdf:<filter> command, as far as generateAndEmailReport looks
\* at it: empty or not, the number after "Customers: " (-1 when the pattern
\* does not match), the presence of "Email sent successfully"
ReportOutputs ==
  {[empty |-> TRUE, customers |-> -1, emailSent |-> FALSE]}
    \cup {[empty |-> FALSE, customers |-> n, emailSent |-> e] :
            n \in {-1, 0, 3}, e \in BOOLEAN}

NoOutput == [empty |-> TRUE, customers |-> -1, emailSent |-> FALSE]

\* runCommand: execSync throws on a non-zero exit status
runCommand(exit, output) ==
  IF exit = 0 THEN [success |-> TRUE, output |-> output]
  ELSE [success |-> FALSE, output |-> NoOutput]

\* generateAndEmailReport(filter), given what the pdf command came to;
\* customerCount is -1 where the code leaves it undefined
generateAndEmailReport(filter, exit, output) ==
  LET result == runCommand(exit, output)
  IN  IF result.success /\ ~result.output.empty
      THEN [filter |-> filter, success |-> TRUE,
            customerCount |-> IF result.output.customers >= 0
                              THEN result.output.customers ELSE 0]
      ELSE [filter |-> filter, success |-> FALSE, customerCount |-> -1]

\* a variant of afterSync that goes on to the reports in any case
afterSync_NoAbort(syncResult) == [pc |-> "expired", exit |-> -1]

\* main after step 1: process.exit(1) when the sync command failed
afterSync(syncResult) ==
  IF ~syncResult.success THEN [pc |-> "done", exit |-> 1]
  ELSE [pc |-> "expired", exit |-> -1]

\* results.every(r => r.success)
allSuccessful(results) == \A i \in 1..Len(results) : results[i].success

-----------------------------------------------------------------------------
(* Specification of the workflow: one run of main, one step per awaited    *)
(* command; exit is -1 while the process runs                              *)

InitWorkflow ==
  /\ now = WindowStart
  /\ expCode = NoCode
  /\ analysis = NotRun
  /\ loaderAnalysis = NotRun
  /\ dbCustomers = {}
  /\ dbCards = <<>>
  /\ response = NotLoaded
  /\ view = NotRendered
  /\ clientCustomer = NoClient
  /\ clientAnalysis = NoAnalysis
  /\ clientStatus = NotRun
  /\ population = <<>>
  /\ classified = NotRun
  /\ summary = NotRun
  /\ statused = NotRun
  /\ actionList = NotRun
  /\ upstream = NoUpstream
  /\ syncDb = EmptyDb
  /\ syncLog = NoSync
  /\ syncResponse = NotLoaded
  /\ printed = NotRendered
  /\ SinceIdle
  /\ \E enabled \in BOOLEAN :
       workflow = [done |-> FALSE, pc |-> "start", emailEnabled |-> enabled,
                   commands |-> <<>>, results |-> <<>>, exit |-> -1]
  /\ RecoveryIdle
  /\ LockIdle
  /\ RateIdle
  /\ CacheIdle
  /\ ServerIdle
  /\ PagingIdle

\* main checks EMAIL_ENABLED
CheckEmailEnabled ==
  /\ workflow.pc = "start"
  /\ workflow' = IF workflow.emailEnabled
                 THEN [workflow EXCEPT !.pc = "sync"]
                 ELSE [workflow EXCEPT !.pc = "done", !.done = TRUE,
                                       !.exit = 1]
  /\ UNCHANGED earlierVars
  /\ UNCHANGED sinceVars
  /\ UNCHANGED recoveryVars
  /\ UNCHANGED lockVars
  /\ UNCHANGED rateVars
  /\ UNCHANGED cacheVars
  /\ UNCHANGED serverVars
  /\ UNCHANGED pagingVars

\* step 1: npm run sync
SyncStep ==
  /\ workflow.pc = "sync"
  /\ \E run \in SyncRuns :
       LET syncResult == runCommand(syncCliExit(run), NoOutput)
           next == afterSync(syncResult)
       IN  workflow' =
             [workflow EXCEPT
                !.commands = Append(@, [command |-> "sync", run |-> run,
                                        output |-> NoOutput]),
                !.results = Append(@, [step |-> "Data Sync",
                                       success |-> syncResult.success,
                                       details |-> -1]),
                !.pc = next.pc,
                !.exit = next.exit,
                !.done = next.pc = "done"]
  /\ UNCHANGED earlierVars
  /\ UNCHANGED sinceVars
  /\ UNCHANGED recoveryVars
  /\ UNCHANGED lockVars
  /\ UNCHANGED rateVars
  /\ UNCHANGED cacheVars
  /\ UNCHANGED serverVars
  /\ UNCHANGED pagingVars

\* steps 2 and 3: npm run pdf:<filter>
ReportStep(at, filter, step, then) ==
  /\ workflow.pc = at
  /\ \E exit \in {0, 1}, output \in ReportOutputs :
       LET report == generateAndEmailReport(filter, exit, output)
       IN  workflow' =
             [workflow EXCEPT
                !.commands = Append(@, [command |-> "pdf:" \o filter,
                                        run |-> IF exit = 0 THEN "success"
                                                ELSE "fatal",
                                        output |-> output]),
                !.results = Append(@, [step |-> step,
                                       success |-> report.success,
                                       details |-> report.customerCount]),
                !.pc = then]
  /\ UNCHANGED earlierVars
  /\ UNCHANGED sinceVars

ExpiredReportStep ==
  ReportStep("expired", "expired", "Expired Cards Report", "expiring")
  /\ UNCHANGED recoveryVars
  /\ UNCHANGED lockVars
  /\ UNCHANGED rateVars
  /\ UNCHANGED cacheVars
  /\ UNCHANGED serverVars
  /\ UNCHANGED pagingVars

ExpiringReportStep ==
  ReportStep("expiring", "expiring", "Expiring Cards Report", "summary")
  /\ UNCHANGED recoveryVars
  /\ UNCHANGED lockVars
  /\ UNCHANGED rateVars
  /\ UNCHANGED cacheVars
  /\ UNCHANGED serverVars
  /\ UNCHANGED pagingVars

\* the summary; main returns (exit status 0) or calls process.exit(1)
WorkflowSummary ==
  /\ workflow.pc = "summary"
  /\ workflow' = [workflow EXCEPT
                    !.pc = "done", !.done = TRUE,
                    !.exit = IF allSuccessful(workflow.results) THEN 0 ELSE 1]
  /\ UNCHANGED earlierVars
  /\ UNCHANGED sinceVars
  /\ UNCHANGED recoveryVars
  /\ UNCHANGED lockVars
  /\ UNCHANGED rateVars
  /\ UNCHANGED cacheVars
  /\ UNCHANGED serverVars
  /\ UNCHANGED pagingVars

NextWorkflow ==
  \/ CheckEmailEnabled \/ SyncStep \/ ExpiredReportStep
  \/ ExpiringReportStep \/ WorkflowSummary

SpecWorkflow == InitWorkflow /\ [][NextWorkflow]_vars

-----------------------------------------------------------------------------
(* The health monitor (scripts/health-monitor.sh): perform_health_check    *)
(* and restart_container.  The script runs under set -e: a function that   *)
(* returns non-zero outside a condition ends the script with that status.  *)

MAX_RESTART_ATTEMPTS == 3

\* a variant of the attempt test that allows one attempt more
maxAttemptsReached_OneMore(attempt) == attempt > MAX_RESTART_ATTEMPTS + 1

\* [[ $attempt -gt $MAX_RESTART_ATTEMPTS ]]
maxAttemptsReached(attempt) == attempt > MAX_RESTART_ATTEMPTS

\* restart_container $((attempt + 1)) after a failed attempt
retry(r, event) ==
  [r EXCEPT !.log = Append(@, event), !.attempt = @ + 1, !.pc = "enter"]

-----------------------------------------------------------------------------
(* Specification of one health check: the commands of the script one by    *)
(* one, each docker command and each curl succeeding or failing.  The log  *)
(* holds the commands that changed or probed the container; status is the  *)
(* status restart_container returned (-1 before it returns).               *)

InitRecovery ==
  /\ now = WindowStart
  /\ expCode = NoCode
  /\ analysis = NotRun
  /\ loaderAnalysis = NotRun
  /\ dbCustomers = {}
  /\ dbCards = <<>>
  /\ response = NotLoaded
  /\ view = NotRendered
  /\ clientCustomer = NoClient
  /\ clientAnalysis = NoAnalysis
  /\ clientStatus = NotRun
  /\ population = <<>>
  /\ classified = NotRun
  /\ summary = NotRun
  /\ statused = NotRun
  /\ actionList = NotRun
  /\ upstream = NoUpstream
  /\ syncDb = EmptyDb
  /\ syncLog = NoSync
  /\ syncResponse = NotLoaded
  /\ printed = NotRendered
  /\ SinceIdle
  /\ FlowIdle
  /\ recovery = [done |-> FALSE, pc |-> "check", attempt |-> 0, log |-> <<>>,
                 alerts |-> 0, status |-> -1, passed |-> FALSE]
  /\ LockIdle
  /\ RateIdle
  /\ CacheIdle
  /\ ServerIdle
  /\ PagingIdle

\* perform_health_check up to the call of restart_container 1: a missing
\* container is created first (a failing docker compose up ends the script
\* there); then the container is running and answers (the check passes),
\* or it is not running, or it does not answer
PerformHealthCheck ==
  /\ recovery.pc = "check"
  /\ \E exists \in BOOLEAN, created \in BOOLEAN,
        running \in BOOLEAN, healthy \in BOOLEAN :
       LET log == IF exists THEN <<>>
                  ELSE <<[command |-> "create", ok |-> created,
                          attempt |-> 0]>>
       IN  recovery' =
             IF ~exists /\ ~created
             THEN [recovery EXCEPT !.log = log,
                                   !.pc = "done", !.done = TRUE]
             ELSE IF running /\ healthy
             THEN [recovery EXCEPT !.log = log, !.pc = "done",
                                   !.done = TRUE, !.passed = TRUE]
             ELSE [recovery EXCEPT !.log = log, !.pc = "enter",
                                   !.attempt = 1]
  /\ UNCHANGED earlierVars
  /\ UNCHANGED sinceVars
  /\ UNCHANGED flowVars
  /\ UNCHANGED lockVars
  /\ UNCHANGED rateVars
  /\ UNCHANGED cacheVars
  /\ UNCHANGED serverVars
  /\ UNCHANGED pagingVars

\* restart_container: the test of the attempt number
EnterRestart ==
  /\ recovery.pc = "enter"
  /\ recovery' =
       IF maxAttemptsReached(recovery.attempt)
       THEN [recovery EXCEPT !.alerts = @ + 1, !.status = 1,
                             !.pc = "done", !.done = TRUE]
       ELSE [recovery EXCEPT !.pc = "stop"]
  /\ UNCHANGED earlierVars
  /\ UNCHANGED sinceVars
  /\ UNCHANGED flowVars
  /\ UNCHANGED lockVars
  /\ UNCHANGED rateVars
  /\ UNCHANGED cacheVars
  /\ UNCHANGED serverVars
  /\ UNCHANGED pagingVars

\* docker compose stop app || true
StopContainer ==
  /\ recovery.pc = "stop"
  /\ \E ok \in BOOLEAN :
       recovery' = [recovery EXCEPT
                      !.log = Append(@, [command |-> "stop", ok |-> ok,
                                         attempt |-> recovery.attempt]),
                      !.pc = "up"]
  /\ UNCHANGED earlierVars
  /\ UNCHANGED sinceVars
  /\ UNCHANGED flowVars
  /\ UNCHANGED lockVars
  /\ UNCHANGED rateVars
  /\ UNCHANGED cacheVars
  /\ UNCHANGED serverVars
  /\ UNCHANGED pagingVars

\* docker compose up -d app
StartContainer ==
  /\ recovery.pc = "up"
  /\ \E ok \in BOOLEAN :
       LET event == [command |-> "up", ok |-> ok,
                     attempt |-> recovery.attempt]
       IN  recovery' =
             IF ok THEN [recovery EXCEPT !.log = Append(@, event),
                                         !.pc = "verify"]
             ELSE retry(recovery, event)
  /\ UNCHANGED earlierVars
  /\ UNCHANGED sinceVars
  /\ UNCHANGED flowVars
  /\ UNCHANGED lockVars
  /\ UNCHANGED rateVars
  /\ UNCHANGED cacheVars
  /\ UNCHANGED serverVars
  /\ UNCHANGED pagingVars

\* check_container_health after the start
VerifyHealth ==
  /\ recovery.pc = "verify"
  /\ \E ok \in BOOLEAN :
       LET event == [command |-> "health", ok |-> ok,
                     attempt |-> recovery.attempt]
       IN  recovery' =
             IF ok THEN [recovery EXCEPT !.log = Append(@, event),
                                         !.status = 0,
                                         !.pc = "done", !.done = TRUE]
             ELSE retry(recovery, event)
  /\ UNCHANGED earlierVars
  /\ UNCHANGED sinceVars
  /\ UNCHANGED flowVars
  /\ UNCHANGED lockVars
  /\ UNCHANGED rateVars
  /\ UNCHANGED cacheVars
  /\ UNCHANGED serverVars
  /\ UNCHANGED pagingVars

NextRecovery ==
  \/ PerformHealthCheck \/ EnterRestart \/ StopContainer
  \/ StartContainer \/ VerifyHealth

\* the shell runs the next command as soon as the previous one returned
SpecRecovery ==
  InitRecovery /\ [][NextRecovery]_vars /\ WF_vars(NextRecovery)

-----------------------------------------------------------------------------
(* The lock file of the health monitor (scripts/health-monitor.sh:         *)
(* create_lock, continuous_monitor, stop_monitor)                          *)

MaxMonitors == 2

\* no PID: the lock file does not exist, or it is empty
NoPid == 0

\* the PIDs of the invocations
Pids == 1..MaxMonitors

\* positions at which a process exists (kill -0 succeeds)
LivePositions == {"test", "read", "probe", "remove", "write", "trap", "loop"}

isAlive(procs, pid) == pid \in Pids /\ procs[pid].pc \in LivePositions

\* a process receives TERM: with the trap installed it removes the lock
\* file and exits, without it it just ends
terminated(procs, pid) ==
  [procs EXCEPT ![pid].pc = IF procs[pid].pc = "loop" THEN "exited"
                            ELSE "dead"]

-----------------------------------------------------------------------------
(* Specification of the lock: MaxMonitors invocations of `monitor`, each   *)
(* command of create_lock a step of its own, processes that are killed     *)
(* without running their trap, and the stop command                        *)

InitLock ==
  /\ now = WindowStart
  /\ expCode = NoCode
  /\ analysis = NotRun
  /\ loaderAnalysis = NotRun
  /\ dbCustomers = {}
  /\ dbCards = <<>>
  /\ response = NotLoaded
  /\ view = NotRendered
  /\ clientCustomer = NoClient
  /\ clientAnalysis = NoAnalysis
  /\ clientStatus = NotRun
  /\ population = <<>>
  /\ classified = NotRun
  /\ summary = NotRun
  /\ statused = NotRun
  /\ actionList = NotRun
  /\ upstream = NoUpstream
  /\ syncDb = EmptyDb
  /\ syncLog = NoSync
  /\ syncResponse = NotLoaded
  /\ printed = NotRendered
  /\ SinceIdle
  /\ FlowIdle
  /\ RecoveryIdle
  /\ lockFile = NoPid
  /\ monitors = [p \in Pids |-> [pc |-> "idle", seen |-> NoPid,
                                 checked |-> FALSE, removed |-> FALSE]]
  /\ RateIdle
  /\ CacheIdle
  /\ ServerIdle
  /\ PagingIdle

LockFrame ==
  /\ UNCHANGED earlierVars
  /\ UNCHANGED sinceVars
  /\ UNCHANGED flowVars
  /\ UNCHANGED recoveryVars
  /\ UNCHANGED rateVars
  /\ UNCHANGED cacheVars
  /\ UNCHANGED serverVars
  /\ UNCHANGED pagingVars

\* health-monitor.sh monitor is started
InvokeMonitor(p) ==
  /\ monitors[p].pc = "idle"
  /\ monitors' = [monitors EXCEPT ![p].pc = "test"]
  /\ UNCHANGED lockFile
  /\ LockFrame

\* [[ -f "$LOCK_FILE" ]]
TestLock(p) ==
  /\ monitors[p].pc = "test"
  /\ monitors' = [monitors EXCEPT
                    ![p].pc = IF lockFile # NoPid THEN "read" ELSE "write"]
  /\ UNCHANGED lockFile
  /\ LockFrame

\* pid=$(cat "$LOCK_FILE" 2>/dev/null || echo "")
ReadLock(p) ==
  /\ monitors[p].pc = "read"
  /\ monitors' = [monitors EXCEPT ![p].pc = "probe", ![p].seen = lockFile]
  /\ UNCHANGED lockFile
  /\ LockFrame

\* [[ -n "$pid" ]] && kill -0 "$pid": exit 0, or go on to remove the file
ProbeHolder(p) ==
  /\ monitors[p].pc = "probe"
  /\ monitors' = [monitors EXCEPT
                    ![p].pc = IF isAlive(monitors, monitors[p].seen)
                              THEN "refused" ELSE "remove"]
  /\ UNCHANGED lockFile
  /\ LockFrame

\* rm -f "$LOCK_FILE"
RemoveStale(p) ==
  /\ monitors[p].pc = "remove"
  /\ lockFile' = NoPid
  /\ monitors' = [monitors EXCEPT ![p].pc = "write",
                                  ![p].removed = lockFile # NoPid]
  /\ LockFrame

\* echo $$ > "$LOCK_FILE"
WriteLock(p) ==
  /\ monitors[p].pc = "write"
  /\ lockFile' = p
  /\ monitors' = [monitors EXCEPT ![p].pc = "trap"]
  /\ LockFrame

\* trap 'rm -f "$LOCK_FILE"; exit' INT TERM EXIT; the loop begins
InstallTrap(p) ==
  /\ monitors[p].pc = "trap"
  /\ monitors' = [monitors EXCEPT ![p].pc = "loop"]
  /\ UNCHANGED lockFile
  /\ LockFrame

\* one round of the loop: perform_health_check, cleanup_logs, sleep 300
MonitorRound(p) ==
  /\ monitors[p].pc = "loop"
  /\ ~monitors[p].checked
  /\ monitors' = [monitors EXCEPT ![p].checked = TRUE]
  /\ UNCHANGED lockFile
  /\ LockFrame

\* the process is killed (KILL, power loss): no trap runs
KillMonitor(p) ==
  /\ monitors[p].pc \in LivePositions
  /\ monitors' = [monitors EXCEPT ![p].pc = "dead"]
  /\ UNCHANGED lockFile
  /\ LockFrame

\* health-monitor.sh stop: kill the holder if it lives, remove the file
StopMonitor ==
  /\ lockFile # NoPid
  /\ monitors' = IF isAlive(monitors, lockFile)
                 THEN terminated(monitors, lockFile) ELSE monitors
  /\ lockFile' = NoPid
  /\ LockFrame

NextLock ==
  \/ \E p \in Pids :
       \/ InvokeMonitor(p) \/ TestLock(p) \/ ReadLock(p) \/ ProbeHolder(p)
       \/ RemoveStale(p) \/ WriteLock(p) \/ InstallTrap(p)
       \/ MonitorRound(p) \/ KillMonitor(p)
  \/ StopMonitor

SpecLock == InitLock /\ [][NextLock]_vars

-----------------------------------------------------------------------------
(* The rate limit of a CloverClient (app/lib/clover-client.ts)             *)

rateLimitDelay == 2000

MaxCalls == 3
ClockSteps == 5

\* the clock moves in steps of StepMs milliseconds
StepMs == 1000
FirstCallTime == 100000

CallIds == 1..MaxCalls

\* enforceRateLimit, first half: the time to sleep (0: no sleep) when the
\* call reads Date.now() = t and lastRequestTime = last
waitTime(t, last) ==
  IF t - last < rateLimitDelay THEN rateLimitDelay - (t - last) ELSE 0

-----------------------------------------------------------------------------
(* Specification of the rate limit: MaxCalls calls of makeRequest on one   *)
(* client.  JavaScript runs a call up to its next await without            *)
(* interruption, so a call is one step when it need not sleep and two      *)
(* steps (up to the sleep, from the timer on) when it sleeps.  A call       *)
(* records whether it was made while another call was sleeping.            *)

InitRate ==
  /\ now = WindowStart
  /\ expCode = NoCode
  /\ analysis = NotRun
  /\ loaderAnalysis = NotRun
  /\ dbCustomers = {}
  /\ dbCards = <<>>
  /\ response = NotLoaded
  /\ view = NotRendered
  /\ clientCustomer = NoClient
  /\ clientAnalysis = NoAnalysis
  /\ clientStatus = NotRun
  /\ population = <<>>
  /\ classified = NotRun
  /\ summary = NotRun
  /\ statused = NotRun
  /\ actionList = NotRun
  /\ upstream = NoUpstream
  /\ syncDb = EmptyDb
  /\ syncLog = NoSync
  /\ syncResponse = NotLoaded
  /\ printed = NotRendered
  /\ SinceIdle
  /\ FlowIdle
  /\ RecoveryIdle
  /\ LockIdle
  /\ rateClock = FirstCallTime
  /\ lastRequestTime = 0
  /\ calls = [c \in CallIds |-> [pc |-> "idle", wakeAt |-> 0, startedAt |-> 0,
                                 overlaps |-> FALSE]]
  /\ requests = <<>>
  /\ CacheIdle
  /\ ServerIdle
  /\ PagingIdle

RateFrame ==
  /\ UNCHANGED earlierVars
  /\ UNCHANGED sinceVars
  /\ UNCHANGED flowVars
  /\ UNCHANGED recoveryVars
  /\ UNCHANGED lockVars
  /\ UNCHANGED cacheVars
  /\ UNCHANGED serverVars
  /\ UNCHANGED pagingVars

\* makeRequest is called: enforceRateLimit either sets lastRequestTime and
\* the request starts, or the call goes to sleep
MakeRequest(c) ==
  /\ calls[c].pc = "idle"
  /\ LET wait == waitTime(rateClock, lastRequestTime)
         overlaps == \E e \in CallIds : calls[e].pc = "sleeping"
     IN  IF wait > 0
         THEN /\ calls' = [calls EXCEPT ![c].pc = "sleeping",
                                        ![c].wakeAt = rateClock + wait,
                                        ![c].overlaps = overlaps]
              /\ UNCHANGED <<lastRequestTime, requests>>
         ELSE /\ lastRequestTime' = rateClock
              /\ requests' = Append(requests, rateClock)
              /\ calls' = [calls EXCEPT ![c].pc = "requested",
                                        ![c].startedAt = rateClock,
                                        ![c].overlaps = overlaps]
  /\ UNCHANGED rateClock
  /\ RateFrame

\* the timer of a sleeping call fires: lastRequestTime = Date.now() and the
\* request starts
WakeUp(c) ==
  /\ calls[c].pc = "sleeping"
  /\ rateClock >= calls[c].wakeAt
  /\ lastRequestTime' = rateClock
  /\ requests' = Append(requests, rateClock)
  /\ calls' = [calls EXCEPT ![c].pc = "requested", ![c].startedAt = rateClock]
  /\ UNCHANGED rateClock
  /\ RateFrame

\* time passes
RateTick ==
  /\ rateClock < FirstCallTime + ClockSteps * StepMs
  /\ rateClock' = rateClock + StepMs
  /\ UNCHANGED <<lastRequestTime, calls, requests>>
  /\ RateFrame

NextRate ==
  \/ \E c \in CallIds : MakeRequest(c) \/ WakeUp(c)
  \/ RateTick

SpecRate == InitRate /\ [][NextRate]_vars

-----------------------------------------------------------------------------
(* What the claims speak of, stated without the code's operators           *)

\* month and year a 4-digit code names
MonthOf(code) == 10 * DigitVal(code.chars[1]) + DigitVal(code.chars[2])
YearOf(code) == 2000 + 10 * DigitVal(code.chars[3]) + DigitVal(code.chars[4])

IsLeapYear(y) == (y % 4 = 0 /\ y % 100 # 0) \/ y % 400 = 0

DaysInMonth(m, y) ==
  IF m \in {1, 3, 5, 7, 8, 10, 12} THEN 31
  ELSE IF m \in {4, 6, 9, 11} THEN 30
  ELSE IF IsLeapYear(y) THEN 29 ELSE 28

\* a time value is the local midnight of the last day of the code's month
IsLastDayOfMonth(t, code) ==
  /\ IsNum(t)
  /\ t.v % TicksPerDay = 0
  /\ CivilFromDays(t.v \div TicksPerDay)
       = <<YearOf(code), MonthOf(code), DaysInMonth(MonthOf(code), YearOf(code))>>

AllDigits(s) == \A i \in 1..Len(s) : s[i] \in Digits

\* a well-formed code: 4 digits, month 01..12
WellFormed(code) ==
  /\ code.present
  /\ Len(code.chars) = 4
  /\ AllDigits(code.chars)
  /\ MonthOf(code) \in 1..12

\* the analyzer has classified the card and found a date
Classified ==
  /\ analysis.done
  /\ ~analysis.result.isNull
  /\ IsNum(analysis.result.daysUntilExpiration)

\* C1: for a card that resolves to a date, the status and the warning level
\* follow days-until d: d < 0 expired/critical, 0..30 expiring-soon/critical,
\* 31..90 expiring-later/warning, above 90 valid/none.
C1_StatusByDays ==
  Classified =>
    LET d == analysis.result.daysUntilExpiration.v
        r == analysis.result
    IN  /\ d < 0 => r.status = "expired" /\ r.warningLevel = "critical"
        /\ d \in 0..30 =>
             r.status = "expiring-soon" /\ r.warningLevel = "critical"
        /\ d \in 31..90 =>
             r.status = "expiring-later" /\ r.warningLevel = "warning"
        /\ d > 90 => r.status = "valid" /\ r.warningLevel = "none"

\* a card classified exactly 30 days before it expires
C1_Witness ==
  /\ Classified
  /\ WellFormed(analysis.code)
  /\ analysis.result.daysUntilExpiration.v = 30
  /\ analysis.result.status = "expiring-soon"

\* C2: every place that parses a well-formed code MMYY resolves it to the
\* last calendar day of month MM of year 2000+YY.
C2_LastDayEverywhere ==
  /\ analysis.done /\ WellFormed(analysis.code) =>
       /\ ~analysis.result.isNull
       /\ IsLastDayOfMonth(analysis.result.expirationDate, analysis.code)
  /\ loaderAnalysis.done /\ WellFormed(loaderAnalysis.code) =>
       IsLastDayOfMonth(loaderAnalysis.result.expDate, loaderAnalysis.code)

\* the analyzer's half of C2, which the code does satisfy
AnalyzerResolvesLastDay ==
  analysis.done /\ WellFormed(analysis.code) =>
    /\ ~analysis.result.isNull
    /\ IsLastDayOfMonth(analysis.result.expirationDate, analysis.code)

\* C3: for a missing or malformed code the codec signals no date and the
\* card is never expired, expiring-soon or expiring-later.
C3_MalformedHasNoDate ==
  analysis.done /\ ~WellFormed(analysis.code) =>
    /\ analysis.result.isNull
    /\ analysis.result.status
         \notin {"expired", "expiring-soon", "expiring-later"}

\* the part of C3 the code does satisfy: absent, empty and wrong-length codes
WrongLengthHasNoDate ==
  analysis.done /\ (Falsy(analysis.code) \/ Len(analysis.code.chars) # 4) =>
    analysis.result.isNull

\* C4: days-until d is the ceiling of (expiration - now) in days; at every
\* instant of the resolved expiration day d = 0 and the card is
\* expiring-soon; it is expired exactly from the next midnight on.
C4_CeilingOfDays ==
  Classified =>
    LET d == analysis.result.daysUntilExpiration.v
        e == analysis.result.expirationDate.v
        t == analysis.at
    IN  /\ (d - 1) * TicksPerDay < e - t
        /\ e - t <= d * TicksPerDay
        /\ (e <= t /\ t < e + TicksPerDay) =>
             d = 0 /\ analysis.result.status = "expiring-soon"
        /\ analysis.result.status = "expired" <=> t >= e + TicksPerDay

\* a card classified on its expiration day, after midnight
C4_Witness ==
  /\ Classified
  /\ WellFormed(analysis.code)
  /\ analysis.at > analysis.result.expirationDate.v
  /\ analysis.at < analysis.result.expirationDate.v + TicksPerDay
  /\ analysis.result.status = "expiring-soon"

-----------------------------------------------------------------------------
(* Claims about the loader's aggregation and the customer lists            *)

\* positions i of a list of classification records with the given status
WithStatus(cards, status) == {i \in 1..Len(cards) : cards[i].status = status}

\* the cards table's rows of a customer
StoredCardsOf(id) == {i \in 1..Len(dbCards) : dbCards[i].customerId = id}

\* C6: for a customer with N stored cards the loader gives N classification
\* records, one per card, totalCards = N, hasExpired iff some record is
\* expired and hasExpiringSoon iff some record is expiring-soon; with no
\* card: 0, FALSE, FALSE.
C6_Aggregation ==
  response.done =>
    \A i \in 1..Len(response.customers) :
      LET c == response.customers[i]
          N == Cardinality(StoredCardsOf(c.id))
      IN  /\ Len(c.cards) = N
          /\ {c.cards[k].card.id : k \in 1..Len(c.cards)}
               = {dbCards[k].id : k \in StoredCardsOf(c.id)}
          /\ c.totalCards = N
          /\ c.hasExpired <=> WithStatus(c.cards, "expired") # {}
          /\ c.hasExpiringSoon <=> WithStatus(c.cards, "expiring-soon") # {}
          /\ N = 0 => c.totalCards = 0 /\ ~c.hasExpired /\ ~c.hasExpiringSoon

\* a response with a customer of two cards, one of them expired, next to a
\* customer without cards and cards of other customers
C6_Witness ==
  /\ response.done
  /\ \E i, j \in 1..Len(response.customers) :
       /\ response.customers[i].totalCards = 2
       /\ response.customers[i].hasExpired
       /\ ~response.customers[i].hasExpiringSoon
       /\ response.customers[j].totalCards = 0

\* days-until of a record as the page compares it (a null counts as 0)
DaysOf(card) == ToNumber(card.daysUntil).v
AbsDaysOf(card) == IF DaysOf(card) < 0 THEN -DaysOf(card) ELSE DaysOf(card)

\* position k is the first one of the set S that minimises Key
FirstMin(k, S, Key(_)) ==
  /\ k \in S
  /\ \A j \in S : Key(k) <= Key(j)
  /\ \A j \in S : j < k => Key(k) < Key(j)

HasBusinessName(c) ==
  /\ c.businessName.present
  /\ \E k \in 1..Len(c.businessName.chars) : c.businessName.chars[k] # " "

\* 2025-07-21, the fixed cutoff of the new-customer rule
CutoffInstant == DaysFromCivil(2025, 7, 21) * TicksPerDay

\* the customer is new at the instant t
IsNew(c, t) ==
  /\ c.customerSince.k = "num"
  /\ IF c.totalCards = 0 THEN c.customerSince.v >= CutoffInstant
     ELSE c.customerSince.v >= t - 90 * TicksPerDay

\* Policy A as the claim states it
InWorklist(c, t) ==
  /\ HasBusinessName(c)
  /\ \/ IsNew(c, t)
     \/ c.hasExpiringSoon
     \/ \E k \in WithStatus(c.cards, "expired") : AbsDaysOf(c.cards[k]) <= 180

\* C8: with the action-required filter, the main page and the print view
\* list exactly the customers with a business name that are new, have a
\* card expiring soon or have a card expired for at most 180 days.
C8_ActionRequired ==
  (view.done /\ view.filter = "action-required") =>
    \A i \in 1..Len(response.customers) :
      LET c == response.customers[i]
      IN  (\E j \in 1..Len(view.shown) : view.shown[j] = c)
            <=> InWorklist(c, view.at)

\* the worklist was rendered for a customer whose only trigger is a card
\* expired for more than 180 days, and the customer is not listed
C8_Witness ==
  /\ view.done
  /\ view.filter = "action-required"
  /\ \E i \in 1..Len(response.customers) :
       LET c == response.customers[i]
       IN  /\ HasBusinessName(c)
           /\ c.hasExpired
           /\ \A k \in WithStatus(c.cards, "expired") :
                AbsDaysOf(c.cards[k]) = 181
           /\ \A j \in 1..Len(view.shown) : view.shown[j] # c

\* the list the filter stage of the rendered page hands to the sort
FilteredList ==
  IF view.page = "main"
  THEN displayFilter(response.customers, view.filter, view.at)
  ELSE printFilter(response.customers, view.filter, view.at)

\* rank of the claim: 4 expired, 3 expiring soon, 2 no cards, 1 otherwise
Rank(c) ==
  CASE c.hasExpired -> 4
    [] ~c.hasExpired /\ c.hasExpiringSoon -> 3
    [] ~c.hasExpired /\ ~c.hasExpiringSoon /\ c.totalCards = 0 -> 2
    [] OTHER -> 1

\* position of a customer in a list without duplicates
PosIn(list, c) == CHOOSE k \in 1..Len(list) : list[k] = c

\* out is a stable sort of in by non-increasing rank
StableByRank(in, out) ==
  /\ Len(out) = Len(in)
  /\ \A k \in 1..Len(in) : \E j \in 1..Len(out) : out[j] = in[k]
  /\ \A j, k \in 1..Len(out) : j < k => Rank(out[j]) >= Rank(out[k])
  /\ \A j, k \in 1..Len(in) :
       (j < k /\ Rank(in[j]) = Rank(in[k]))
         => PosIn(out, in[j]) < PosIn(out, in[k])

\* C9: the list shown is the filtered list sorted by non-increasing rank,
\* customers of equal rank in their input order, and the list handed to the
\* sort is left in its original order.
C9_UrgencySort ==
  view.done =>
    /\ StableByRank(FilteredList, view.shown)
    /\ view.sortInput = FilteredList
    /\ view.data = response.customers

\* the part of C9 that holds of both pages: what is shown is the stable
\* sort of the filtered list
ShownIsStableSort == view.done => StableByRank(FilteredList, view.shown)

\* the part of C9 that holds of the main page: its inputs keep their order
MainPageKeepsInput ==
  (view.done /\ view.page = "main") =>
    view.sortInput = FilteredList /\ view.data = response.customers

-----------------------------------------------------------------------------
(* Claims about the client status                                          *)

\* number of cards of the platform customer, whatever the representation
CardCount(customer) == Len(customer.cards.elements)

\* C10: a customer with neither createdTime nor customerSince is all-good
\* if it has a card and inactive-old otherwise, with priority none and no
\* action required, whatever the status of its cards.
C10_NoTimestamp ==
  (/\ clientStatus.done
   /\ clientCustomer.createdTime = JsNull
   /\ clientCustomer.customerSince = JsNull) =>
    /\ CardCount(clientCustomer) >= 1 => clientStatus.result.status = "all-good"
    /\ CardCount(clientCustomer) = 0 =>
         clientStatus.result.status = "inactive-old"
    /\ clientStatus.result.priority = "none"
    /\ clientStatus.result.requiresAction = FALSE

\* a customer without timestamps whose card is classified expired
C10_Witness ==
  /\ clientStatus.done
  /\ clientCustomer.createdTime = JsNull
  /\ clientCustomer.customerSince = JsNull
  /\ clientAnalysis.present
  /\ \E i \in 1..Len(clientAnalysis.list) :
       /\ clientAnalysis.list[i].card.customerId = "client"
       /\ clientAnalysis.list[i].expiration.status = "expired"
  /\ clientStatus.result.status = "all-good"

\* the customer has a creation timestamp (createdTime or customerSince)
HasTimestamp(customer) ==
  \/ customer.createdTime.k = "num" /\ customer.createdTime.v # 0
  \/ customer.customerSince.k = "num" /\ customer.customerSince.v # 0

\* the creation timestamp: createdTime, or customerSince without it
TimestampOf(customer) ==
  IF customer.createdTime.k = "num" /\ customer.createdTime.v # 0
  THEN customer.createdTime.v ELSE customer.customerSince.v

\* whole days elapsed since the creation timestamp at the instant t
AgeInDays(customer, t) ==
  (t - TimestampOf(customer)) \div TicksPerDay

RecordHas(list, status) ==
  \E i \in 1..Len(list) : list[i].expiration.status = status

\* C11: a customer with a creation timestamp and at least one card is
\* expired-cards / critical when a record passed is expired, otherwise
\* expiring-cards / high when a record is expiring-soon, otherwise
\* all-good / none, whatever its age.
C11_CardRules ==
  (/\ clientStatus.done
   /\ HasTimestamp(clientCustomer)
   /\ CardCount(clientCustomer) >= 1) =>
    LET r == clientStatus.result
        list == clientAnalysis.list
    IN  IF RecordHas(list, "expired")
        THEN r.status = "expired-cards" /\ r.priority = "critical"
        ELSE IF RecordHas(list, "expiring-soon")
        THEN r.status = "expiring-cards" /\ r.priority = "high"
        ELSE r.status = "all-good" /\ r.priority = "none"

\* a customer more than a year old whose records hold an expiring-soon
\* record before an expired one: expired-cards
C11_Witness ==
  /\ clientStatus.done
  /\ HasTimestamp(clientCustomer)
  /\ CardCount(clientCustomer) >= 1
  /\ AgeInDays(clientCustomer, clientStatus.at) > 365
  /\ Len(clientAnalysis.list) = 2
  /\ clientAnalysis.list[1].expiration.status = "expiring-soon"
  /\ clientAnalysis.list[2].expiration.status = "expired"
  /\ clientStatus.result.status = "expired-cards"

\* C12: a customer with a creation timestamp and no card is classified by
\* its age in whole days alone: at most 180 new-needs-payment / high, 181
\* to 365 inactive-old / low, above 365 inactive-old / none, whatever list
\* is passed.
C12_AgeRules ==
  (/\ clientStatus.done
   /\ HasTimestamp(clientCustomer)
   /\ CardCount(clientCustomer) = 0) =>
    LET r == clientStatus.result
        age == AgeInDays(clientCustomer, clientStatus.at)
    IN  /\ r.daysOld = age
        /\ age <= 180 => r.status = "new-needs-payment" /\ r.priority = "high"
        /\ (180 < age /\ age <= 365) =>
             r.status = "inactive-old" /\ r.priority = "low"
        /\ age > 365 => r.status = "inactive-old" /\ r.priority = "none"

\* a cardless customer one tick short of 181 days, with an expired record
\* passed: still new-needs-payment
C12_Witness ==
  /\ clientStatus.done
  /\ HasTimestamp(clientCustomer)
  /\ CardCount(clientCustomer) = 0
  /\ clientStatus.at - TimestampOf(clientCustomer) = 181 * TicksPerDay - 1
  /\ RecordHas(clientAnalysis.list, "expired")
  /\ clientStatus.result.status = "new-needs-payment"

-----------------------------------------------------------------------------
(* Claims about customer lists                                             *)

ActionStatuses == {"expired-cards", "expiring-cards", "new-needs-payment"}

RECURSIVE Subsequence(_, _)
\* the elements of seq that satisfy the characteristic function keep, in order
Subsequence(seq, keep) ==
  IF seq = <<>> THEN <<>>
  ELSE IF keep[Head(seq)]
       THEN <<Head(seq)>> \o Subsequence(Tail(seq), keep)
       ELSE Subsequence(Tail(seq), keep)

\* C13: requiresAction is true exactly for the statuses expired-cards,
\* expiring-cards and new-needs-payment, and getCustomersRequiringAction
\* returns exactly the customers with one of these statuses, in order.
C13_RequiresAction ==
  /\ statused.done =>
       \A i \in 1..Len(statused.list) :
         statused.list[i].clientStatus.requiresAction
           <=> statused.list[i].clientStatus.status \in ActionStatuses
  /\ actionList.done =>
       actionList.list =
         Subsequence(statused.list,
                     [c \in {statused.list[i] : i \in 1..Len(statused.list)} |->
                        c.clientStatus.status \in ActionStatuses])

\* the same equivalence for one customer and whatever list is passed
RequiresActionIffStatus ==
  clientStatus.done =>
    (clientStatus.result.requiresAction
       <=> clientStatus.result.status \in ActionStatuses)

\* a list of an inactive-old customer of low priority followed by one that
\* needs a payment method: only the second is returned
C13_Witness ==
  /\ actionList.done
  /\ Len(statused.list) = 2
  /\ statused.list[1].clientStatus.status = "inactive-old"
  /\ statused.list[1].clientStatus.priority = "low"
  /\ statused.list[2].clientStatus.status = "new-needs-payment"
  /\ actionList.list = <<statused.list[2]>>

RECURSIVE SumOver(_, _)
\* the sum of f over the set S
SumOver(f, S) ==
  IF S = {} THEN 0
  ELSE LET x == CHOOSE y \in S : TRUE IN f[x] + SumOver(f, S \ {x})

\* C14: totalCustomers is the number of customers and totalCards the sum
\* of their card counts, flat or nested, which is also the number of
\* classification records analyzeCustomers produced.
C14_SummaryTotals ==
  summary.done =>
    LET n == Len(population)
    IN  /\ summary.result.totalCustomers = n
        /\ summary.result.totalCards =
             SumOver([i \in 1..n |-> CardCount(population[i])], 1..n)
        /\ summary.result.totalCards =
             SumOver([i \in 1..n |-> Len(classified.list[i].expirationAnalysis)],
                     1..n)

\* what does hold: the customer count, and the card total when every
\* customer's cards are a flat array or missing
FlatSummaryTotals ==
  summary.done =>
    LET n == Len(population)
    IN  /\ summary.result.totalCustomers = n
        /\ (\A i \in 1..n : population[i].cards.shape # "nested") =>
             summary.result.totalCards =
               SumOver([i \in 1..n |-> CardCount(population[i])], 1..n)

\* the customers of the analysed list that have a record of the status
Flagged(status) ==
  {i \in 1..Len(classified.list) :
     RecordHas(classified.list[i].expirationAnalysis, status)}

BucketIs(bucket, status) ==
  /\ bucket.customers = Cardinality(Flagged(status))
  /\ bucket.cards =
       SumOver([i \in 1..Len(classified.list) |->
                  Len(classified.list[i].expirationAnalysis)], Flagged(status))
  /\ bucket.cards >= bucket.customers
  /\ bucket.customers <= summary.result.totalCustomers

\* C15: each bucket of the summary counts the customers with at least one
\* record of its status once, and all the classification records of those
\* customers.
C15_SummaryBuckets ==
  summary.done =>
    /\ BucketIs(summary.result.expired, "expired")
    /\ BucketIs(summary.result.expiringSoon, "expiring-soon")
    /\ BucketIs(summary.result.expiringLater, "expiring-later")

\* a customer with two expired cards next to one with an expired and an
\* expiring-soon card: two customers and four records in the expired
\* bucket, one customer and two records in the expiring-soon bucket
C15_Witness ==
  /\ summary.done
  /\ Len(classified.list) = 2
  /\ Len(classified.list[1].expirationAnalysis) = 2
  /\ \A k \in 1..2 :
       classified.list[1].expirationAnalysis[k].expiration.status = "expired"
  /\ RecordHas(classified.list[2].expirationAnalysis, "expiring-soon")
  /\ summary.result.expired = [customers |-> 2, cards |-> 4]
  /\ summary.result.expiringSoon = [customers |-> 1, cards |-> 2]

-----------------------------------------------------------------------------
(* Claims about the test mode                                              *)

December2026 == Code(<<"1", "2", "2", "6">>)

\* the analyzer has classified the 12/26 card during 2026-11-15
December2026OnTestDay ==
  /\ analysis.done
  /\ analysis.code = December2026
  /\ analysis.at >= TestModeDay

-----------------------------------------------------------------------------
(* Claims about the sync                                                   *)

IdsOf(customers) == {customers[i].id : i \in 1..Len(customers)}

\* the customer with the id among those returned
ReturnedCustomer(customers, id) ==
  customers[CHOOSE i \in 1..Len(customers) : customers[i].id = id]

CardIdsOf(customer) == {customer.cards[i].id : i \in 1..Len(customer.cards)}

\* the ids both merchant accounts returned in the last run
SharedIds ==
  IdsOf(syncLog.lastOk["USD"].customers)
    \cap IdsOf(syncLog.lastOk["CAD"].customers)

\* C18: when both merchant accounts return a customer with the same id,
\* both are stored after the sync, one for each merchant currency, and
\* /api/customers returns both, each with its own currency and cards.
C18_SharedIdKept ==
  (syncLog.done /\ syncLog.failing = {}) =>
    \A id \in SharedIds : \A m \in {"USD", "CAD"} :
      /\ \E r \in syncDb.customers : r.id = id /\ r.merchantCurrency = m
      /\ syncResponse.done =>
           \E e \in syncResponse.customers :
             /\ e.id = id
             /\ e.merchantCurrency = m
             /\ {k.id : k \in e.cards} =
                  CardIdsOf(ReturnedCustomer(syncLog.lastOk[m].customers, id))

\* C19: for every merchant with a run completed without error, the stored
\* customers of that merchant are those returned by its latest such run,
\* and the stored cards of each are the cards returned for it.
C19_StoredIsLatest ==
  \A m \in {"USD", "CAD"} :
    syncLog.lastOk[m].ok =>
      LET returned == syncLog.lastOk[m].customers
      IN  /\ {r.id : r \in {q \in syncDb.customers : q.merchantCurrency = m}}
               = IdsOf(returned)
          /\ \A i \in 1..Len(returned) :
               {k.id : k \in {c \in syncDb.cards :
                                c.customerId = returned[i].id}}
                 = CardIdsOf(returned[i])

\* what does hold: after a run in which the fetch of the last merchant
\* succeeded, every customer it returned is stored under its currency with
\* exactly the cards returned, and no test customer is left
LastMerchantIsStored ==
  (syncLog.done /\ "CAD" \notin syncLog.failing) =>
    LET returned == syncLog.lastOk["CAD"].customers
    IN  /\ \A i \in 1..Len(returned) :
             /\ \E r \in syncDb.customers :
                  r.id = returned[i].id /\ r.merchantCurrency = "CAD"
             /\ {k.id : k \in {c \in syncDb.cards :
                                 c.customerId = returned[i].id}}
                  = CardIdsOf(returned[i])
        /\ \A r \in syncDb.customers : ~IsTestId(r.id)

-----------------------------------------------------------------------------
(* Claims about the print link                                             *)

ShownIds(list) == {list[i].id : i \in 1..Len(list)}

\* C20: for every filter and search term the main page passes on, the
\* print view lists exactly the customers the main page displays.
C20_PrintMatchesMain ==
  printed.done => ShownIds(printed.shown) = ShownIds(printed.main)

\* what does hold: the same for every filter but active
PrintMatchesMainButActive ==
  (printed.done /\ printed.filter # "active") =>
    printed.shown = printed.main

-----------------------------------------------------------------------------

\* both classifiers have run on the same code at the same instant
BothClassified ==
  /\ analysis.done
  /\ loaderAnalysis.done
  /\ analysis.code = loaderAnalysis.code
  /\ analysis.at = loaderAnalysis.at

\* C21: for every code and instant the loader's card analysis gives the same
\* days-until and the same expired / expiring-soon decision as
\* analyzeCardExpiration, and reports no-expiration exactly when the
\* analyzer's parser returns no date.
C21_ClassifiersAgree ==
  BothClassified =>
    /\ (loaderAnalysis.result.status = "no-expiration")
         <=> analysis.result.isNull
    /\ ~analysis.result.isNull =>
         /\ loaderAnalysis.result.daysUntil
              = analysis.result.daysUntilExpiration
         /\ (loaderAnalysis.result.status = "expired")
              <=> (analysis.result.status = "expired")
         /\ (loaderAnalysis.result.status = "expiring-soon")
              <=> (analysis.result.status = "expiring-soon")

\* what the two classifiers do share: an absent or empty code has no
\* expiration for both
FalsyCodeAgrees ==
  BothClassified /\ Falsy(analysis.code) =>
    /\ loaderAnalysis.result.status = "no-expiration"
    /\ analysis.result.isNull

-----------------------------------------------------------------------------
(* Claims about the unit of customerSince                                  *)

\* the customer's age in ticks at the instant t, customerSince read as an
\* instant of the program's clock
AgeTicks(t) == t - sinceRow.customer.customerSince.v

SinceIsSet == sinceRow.customer.customerSince.k = "num"
                /\ sinceRow.customer.customerSince.v # 0

\* what the customer card shows for an age of days
ShownAge(days) ==
  IF days = 0 THEN [kind |-> "today", n |-> 0]
  ELSE IF days < 30 THEN [kind |-> "j", n |-> days]
  ELSE IF days < 365 THEN [kind |-> "m", n |-> days \div 30]
  ELSE [kind |-> "a", n |-> days \div 365]

\* Policy A (main page or print view) reads customerSince as an instant
ListReadsInstant(reader) ==
  sinceAges[reader].done /\ SinceIsSet =>
    (sinceAges[reader].value <=>
       IF sinceRow.cards = <<>>
       THEN sinceRow.customer.customerSince.v >= CutoffInstant
       ELSE AgeTicks(sinceAges[reader].at) <= 90 * TicksPerDay)

\* Policy B and the customer card count whole days of that age
DaysReadInstant ==
  /\ sinceAges["status"].done /\ SinceIsSet =>
       sinceAges["status"].value
         = AgeTicks(sinceAges["status"].at) \div TicksPerDay
  /\ sinceAges["card"].done /\ SinceIsSet =>
       sinceAges["card"].value
         = ShownAge(AgeTicks(sinceAges["card"].at) \div TicksPerDay)

\* the export keeps a customer without cards created less than 6 x 30 days
\* ago
ExportReadsInstant ==
  sinceAges["export"].done /\ SinceIsSet /\ sinceRow.cards = <<>> =>
    (sinceAges["export"].value <=>
       AgeTicks(sinceAges["export"].at) < 180 * TicksPerDay)

\* C22: every computation that compares customerSince with the current
\* time reads the stored value in the same unit: Policy A's new-customer
\* test on the main page and in the print view, getDaysSinceCreated, the
\* customer card and the export's created-within-6x30-days test give ages
\* that are consistent for one stored value.
C22_OneTimeUnit ==
  /\ ListReadsInstant("main")
  /\ ListReadsInstant("print")
  /\ DaysReadInstant
  /\ ExportReadsInstant

\* all readers but the export do agree
OneTimeUnitButExport ==
  /\ ListReadsInstant("main")
  /\ ListReadsInstant("print")
  /\ DaysReadInstant

-----------------------------------------------------------------------------
(* Claims about the sync-and-email workflow                                *)

WorkflowOrder == <<"sync", "pdf:expired", "pdf:expiring">>

CommandsRun == [i \in 1..Len(workflow.commands) |-> workflow.commands[i].command]

\* the command ended with exit status 0
Succeeded(i) == workflow.commands[i].run # "fatal"

\* the report command gave what the workflow needs of it
ReportSucceeded(i) == Succeeded(i) /\ ~workflow.commands[i].output.empty

\* C23: the steps run in the order sync, expired report, expiring report;
\* no report is started unless the sync step succeeded, and a failed sync
\* ends the run with a non-zero exit status; the expiring report is
\* attempted whether or not the expired report succeeded; the exit status
\* is 0 only if all three steps succeeded.
C23_WorkflowOrder ==
  workflow.pc # "start" =>
    /\ Len(CommandsRun) <= 3
    /\ CommandsRun = SubSeq(WorkflowOrder, 1, Len(CommandsRun))
    /\ Len(CommandsRun) >= 2 => Succeeded(1)
    /\ (Len(CommandsRun) >= 1 /\ ~Succeeded(1)) =>
         (workflow.done /\ workflow.exit = 1)
    /\ (workflow.done /\ Len(CommandsRun) >= 2) => Len(CommandsRun) = 3
    /\ workflow.done /\ workflow.exit = 0 =>
         /\ Len(CommandsRun) = 3
         /\ Succeeded(1) /\ ReportSucceeded(2) /\ ReportSucceeded(3)
    /\ workflow.done <=> workflow.exit \in {0, 1}

\* the run ended after a failed expired report and a successful expiring
\* report
C23_Witness ==
  /\ workflow.done
  /\ Len(workflow.commands) = 3
  /\ ~ReportSucceeded(2)
  /\ ReportSucceeded(3)
  /\ workflow.exit = 1

-----------------------------------------------------------------------------
(* Claims about the auto-restart                                           *)

Starts == {i \in 1..Len(recovery.log) : recovery.log[i].command = "up"}

Probes == {i \in 1..Len(recovery.log) : recovery.log[i].command = "health"}

\* attempt n brought the container up and the health check passed
AttemptPassed(n) ==
  \E i \in Probes : recovery.log[i].attempt = n /\ recovery.log[i].ok

RestartCalled == recovery.attempt >= 1

RestartSafe ==
  /\ Cardinality(Starts) <= 3
  /\ \A i \in Probes : recovery.log[i].ok => i = Len(recovery.log)
  /\ (recovery.done /\ RestartCalled) =>
       /\ recovery.status \in {0, 1}
       /\ recovery.status = 0 <=> \E n \in 1..3 : AttemptPassed(n)
       /\ recovery.status = 1 =>
            /\ Cardinality(Starts) = 3
            /\ recovery.alerts = 1
       /\ recovery.status = 0 => recovery.alerts = 0

\* C24: from restart_container 1 the container is restarted at most 3
\* times; the procedure stops at the first attempt after which the health
\* check passes and returns success; if all 3 attempts fail it sends an
\* alert and returns failure; in every case it terminates.
C24_RestartTerminates == []RestartSafe /\ <>(recovery.done)

\* three attempts failed, the last one at the health check, and the alert
\* went out
C24_Witness ==
  /\ recovery.done
  /\ recovery.status = 1
  /\ recovery.alerts = 1
  /\ Cardinality(Starts) = 3
  /\ recovery.log[Len(recovery.log)].command = "health"

-----------------------------------------------------------------------------
(* Claims about the lock file                                              *)

InLoop == {p \in Pids : monitors[p].pc = "loop"}

\* C25: under every interleaving of monitor invocations at most one
\* process is in the monitoring loop; an invocation that finds the lock
\* held by a live process exits without a health check and without
\* removing the holder's lock; a stale lock is replaced.
C25_SingleMonitor ==
  /\ Cardinality(InLoop) <= 1
  /\ \A p \in Pids :
       monitors[p].pc = "refused" =>
         ~monitors[p].checked /\ ~monitors[p].removed
  /\ \A p \in InLoop :
       monitors[p].removed => ~isAlive(monitors, monitors[p].seen)

\* what create_lock does give: an invocation that is refused has done no
\* health check and removed nothing
RefusedIsHarmless ==
  \A p \in Pids :
    monitors[p].pc = "refused" =>
      ~monitors[p].checked /\ ~monitors[p].removed

-----------------------------------------------------------------------------
(* Claims about the rate limit                                             *)

\* C26: any two HTTP requests issued through the same client start at
\* least 2000 ms apart, for every interleaving of makeRequest calls, calls
\* that overlap while one of them is sleeping included.
C26_RequestsSpaced ==
  \A i \in 1..Len(requests), j \in 1..Len(requests) :
    i < j => requests[j] - requests[i] >= 2000

\* no call was made while another one was sleeping
NoOverlap == \A c \in CallIds : ~calls[c].overlaps

\* what the code does give: calls that do not overlap are spaced
SpacedWithoutOverlap == NoOverlap => C26_RequestsSpaced

-----------------------------------------------------------------------------
\* The cache (app/lib/cache.ts)

\* 24 * 60 * 60 * 1000 ms, the ttl getCustomersPaginated gives withCache
DayTtl == TicksPerDay

\* customers_paginated_<merchantId>_<currency>_<limit>_<offset>_<expand>: the
\* merchant id and the currency go together, the expand fields are fixed
cacheKey(currency, limit, offset) ==
  [currency |-> currency, limit |-> limit, offset |-> offset]

\* SimpleCache.get: null when there is no entry, or when the entry has
\* expired (and then the entry is deleted); the data otherwise
cacheGet(cache, key, t) ==
  LET found == {e \in cache : e.key = key}
  IN  IF found = {} THEN [hit |-> FALSE, cache |-> cache]
      ELSE LET entry == CHOOSE e \in found : TRUE
           IN  IF t - entry.timestamp > entry.ttl
               THEN [hit |-> FALSE, cache |-> cache \ found]
               ELSE [hit |-> TRUE, cache |-> cache, data |-> entry.data]

\* SimpleCache.set: the entry of the key is replaced, stamped with the time
cacheSet(cache, key, data, ttl, t) ==
  {e \in cache : e.key # key}
    \cup {[key |-> key, data |-> data, timestamp |-> t, ttl |-> ttl]}

\* nothing of the pages, the client, the population or the sync has run
EarlierIdle ==
  /\ expCode = NoCode
  /\ analysis = NotRun
  /\ loaderAnalysis = NotRun
  /\ dbCustomers = {}
  /\ dbCards = <<>>
  /\ response = NotLoaded
  /\ view = NotRendered
  /\ clientCustomer = NoClient
  /\ clientAnalysis = NoAnalysis
  /\ clientStatus = NotRun
  /\ population = <<>>
  /\ classified = NotRun
  /\ summary = NotRun
  /\ statused = NotRun
  /\ actionList = NotRun
  /\ upstream = NoUpstream
  /\ syncDb = EmptyDb
  /\ syncLog = NoSync
  /\ syncResponse = NotLoaded
  /\ printed = NotRendered

MaxCacheCalls == 2
CacheDays == 2
SourceVersions == 2
PageLimit == 100

CacheCallIds == 1 .. MaxCacheCalls
CacheStart == DaysFromCivil(2026, 3, 1) * TicksPerDay
CacheEnd == CacheStart + CacheDays * TicksPerDay
CacheKeys == {cacheKey(Merchants[i], PageLimit, 0) : i \in 1 .. Len(Merchants)}

IdleCall ==
  [pc |-> "idle", key |-> cacheKey("USD", PageLimit, 0), startedAt |-> 0,
   doneAt |-> 0, fetched |-> FALSE, overlaps |-> FALSE, result |-> 0]

InitCache ==
  /\ now = CacheStart
  /\ EarlierIdle
  /\ SinceIdle
  /\ FlowIdle
  /\ RecoveryIdle
  /\ LockIdle
  /\ RateIdle
  /\ globalCache = {}
  /\ cacheCalls = [c \in CacheCallIds |-> IdleCall]
  /\ cacheSource = [k \in CacheKeys |-> 1]
  /\ ServerIdle
  /\ PagingIdle

earlierButNow == <<cardVars, pageVars, clientVars, popVars, syncVars, printed>>

CacheFrame ==
  /\ UNCHANGED earlierButNow
  /\ UNCHANGED sinceVars
  /\ UNCHANGED flowVars
  /\ UNCHANGED recoveryVars
  /\ UNCHANGED lockVars
  /\ UNCHANGED rateVars
  /\ UNCHANGED serverVars
  /\ UNCHANGED pagingVars

\* withCache(key, fn, ttl) up to its await: the cached value is returned
\* when get finds one, and fn is started when it does not
WithCache(c, key) ==
  /\ cacheCalls[c].pc = "idle"
  /\ LET cached == cacheGet(globalCache, key, now)
     IN  /\ globalCache' = cached.cache
         /\ cacheCalls' =
              [cacheCalls EXCEPT ![c] =
                 IF cached.hit
                 THEN [@ EXCEPT !.pc = "returned", !.key = key,
                                !.startedAt = now, !.doneAt = now,
                                !.result = cached.data]
                 ELSE [@ EXCEPT !.pc = "fetching", !.key = key,
                                !.startedAt = now, !.fetched = TRUE,
                                !.overlaps =
                                   \E d \in CacheCallIds :
                                      /\ cacheCalls[d].pc = "fetching"
                                      /\ cacheCalls[d].key = key]]
  /\ UNCHANGED <<now, cacheSource>>
  /\ CacheFrame

\* the awaited fn resolves: its result is stored under the key and returned
FetchResolves(c) ==
  /\ cacheCalls[c].pc = "fetching"
  /\ LET result == cacheSource[cacheCalls[c].key]
     IN  /\ globalCache' = cacheSet(globalCache, cacheCalls[c].key, result,
                                    DayTtl, now)
         /\ cacheCalls' = [cacheCalls EXCEPT ![c] =
                             [@ EXCEPT !.pc = "returned", !.doneAt = now,
                                       !.result = result]]
  /\ UNCHANGED <<now, cacheSource>>
  /\ CacheFrame

\* the data behind a key changes on the platform
SourceChanges(key) ==
  /\ cacheSource[key] < SourceVersions
  /\ cacheSource' = [cacheSource EXCEPT ![key] = @ + 1]
  /\ UNCHANGED <<now, globalCache, cacheCalls>>
  /\ CacheFrame

CacheTick ==
  /\ now < CacheEnd
  /\ now' = now + 1
  /\ UNCHANGED <<globalCache, cacheCalls, cacheSource>>
  /\ CacheFrame

NextCache ==
  \/ \E c \in CacheCallIds, key \in CacheKeys : WithCache(c, key)
  \/ \E c \in CacheCallIds : FetchResolves(c)
  \/ \E key \in CacheKeys : SourceChanges(key)
  \/ CacheTick

SpecCache == InitCache /\ [][NextCache]_vars

\* c's fetch was over, and its entry expired, before d's fetch began
FetchedBefore(c, d) ==
  /\ cacheCalls[c].pc = "returned"
  /\ cacheCalls[d].startedAt - cacheCalls[c].doneAt > DayTtl

\* C27: the wrapped fetch is executed at most once per key while the entry
\* is fresh: of two calls of one key that both executed the fetch, one began
\* only after the other's entry had expired, so overlapping calls share one
\* fetch and its result
C27_FetchOncePerKey ==
  \A c, d \in CacheCallIds :
     (/\ c # d
      /\ cacheCalls[c].fetched
      /\ cacheCalls[d].fetched
      /\ cacheCalls[c].key = cacheCalls[d].key)
     => (FetchedBefore(c, d) \/ FetchedBefore(d, c))

NoCacheOverlap == \A c \in CacheCallIds : ~cacheCalls[c].overlaps

\* what the code does give: calls of one key that do not overlap execute
\* the fetch once per fresh entry
FetchOnceWithoutOverlap == NoCacheOverlap => C27_FetchOncePerKey

\* and a call that finds a fresh entry returns it without executing the fetch
CachedValueReturned ==
  \A c \in CacheCallIds :
     (cacheCalls[c].pc = "returned" /\ ~cacheCalls[c].fetched)
     => \E d \in CacheCallIds :
           /\ cacheCalls[d].fetched
           /\ cacheCalls[d].pc = "returned"
           /\ cacheCalls[d].key = cacheCalls[c].key
           /\ cacheCalls[d].result = cacheCalls[c].result
           /\ ~(cacheCalls[c].startedAt - cacheCalls[d].doneAt > DayTtl)

-----------------------------------------------------------------------------
\* syncAllCustomers as it runs in a server process: pages through the
\* cache, customers the schema rejects, errors and stats

\* the platform's answer to limit and offset: the customers offset + 1 to
\* offset + limit of the account's list
pageOf(list, limit, offset) ==
  IF offset >= Len(list) THEN <<>>
  ELSE SubSeq(list, offset + 1, Min(offset + limit, Len(list)))

\* getCustomersPaginated(limit, offset): withCache around the platform
\* request; a request of a merchant in failing throws and stores nothing
getCustomersPaginated(cache, currency, list, limit, offset, failing, t) ==
  LET key == cacheKey(currency, limit, offset)
      cached == cacheGet(cache, key, t)
  IN  IF cached.hit
      THEN [threw |-> FALSE, data |-> cached.data, cache |-> cached.cache]
      ELSE IF currency \in failing
           THEN [threw |-> TRUE, data |-> <<>>, cache |-> cached.cache]
           ELSE LET data == pageOf(list, limit, offset)
                IN  [threw |-> FALSE, data |-> data,
                     cache |-> cacheSet(cached.cache, key, data, DayTtl, t)]

\* customers.length < limit: the end has been reached
lastPage_Full(customers, limit) == Len(customers) <= limit
lastPage(customers, limit) == Len(customers) < limit

\* let offset = 0; const allCustomers = []; let hasMore = true
NewLoop == [offset |-> 0, allCustomers |-> <<>>, hasMore |-> TRUE, batches |-> 0]

\* the body of while (hasMore) after the page has arrived
pageStep(loop, customers) ==
  IF Len(customers) = 0
  THEN [loop EXCEPT !.hasMore = FALSE, !.batches = @ + 1]
  ELSE [loop EXCEPT !.allCustomers = @ \o customers,
                    !.offset = @ + PageLimit,
                    !.hasMore = ~lastPage(customers, PageLimit),
                    !.batches = @ + 1]

RECURSIVE pageLoop(_, _, _, _, _, _)
\* while (hasMore) { customers = await client.getCustomersPaginated(...) }
pageLoop(loop, cache, currency, list, failing, t) ==
  IF ~loop.hasMore
  THEN [threw |-> FALSE, customers |-> loop.allCustomers, cache |-> cache]
  ELSE LET page == getCustomersPaginated(cache, currency, list, PageLimit,
                                         loop.offset, failing, t)
       IN  IF page.threw
           THEN [threw |-> TRUE, customers |-> <<>>, cache |-> page.cache]
           ELSE pageLoop(pageStep(loop, page.data), page.cache, currency,
                         list, failing, t)

NoValue == ""
EmptyObject == [m \in {} |-> 0]
withKey(object, key, value) ==
  [k \in DOMAIN object \cup {key} |-> IF k = key THEN value ELSE object[k]]

\* the catch around storeCustomer: one errors entry, syncedCount untouched
storeFailed_Silent(run, customer, currency) == run
storeFailed(run, customer, currency) ==
  [run EXCEPT !.errors = Append(@, [merchantId |-> currency,
                                    currency |-> NoValue,
                                    customerId |-> customer.id])]

\* try { await this.storeCustomer(customer, config); syncedCount++ }:
\* CloverCustomerSchema.parse throws before anything is written
storeOne(run, customer, currency, rejected) ==
  IF customer.id \in rejected THEN storeFailed(run, customer, currency)
  ELSE [run EXCEPT !.db = storeCustomer(@, customer, currency),
                   !.syncedCount = @ + 1]

RECURSIVE storeEach(_, _, _, _)
\* for (const customer of allCustomers)
storeEach(run, customers, currency, rejected) ==
  IF customers = <<>> THEN run
  ELSE storeEach(storeOne(run, Head(customers), currency, rejected),
                 Tail(customers), currency, rejected)

\* the body of for (const config of this.configs): the page loop, the
\* store loop and the stats, or the errors entry of the merchant
syncMerchant(run, currency, platform, failing, rejected, t) ==
  LET fetch == pageLoop(NewLoop, run.cache, currency, platform[currency],
                        failing, t)
  IN  IF fetch.threw
      THEN [run EXCEPT !.cache = fetch.cache,
                       !.threw = @ \cup {currency},
                       !.errors = Append(@, [merchantId |-> currency,
                                             currency |-> currency,
                                             customerId |-> NoValue])]
      ELSE LET stored == storeEach([run EXCEPT !.cache = fetch.cache,
                                               !.syncedCount = 0],
                                   fetch.customers, currency, rejected)
               fetched == Len(fetch.customers)
           IN  [stored EXCEPT
                  !.allCustomers = withKey(@, currency, fetch.customers),
                  !.customersByMerchant =
                     withKey(@, currency,
                             [fetched |-> fetched,
                              synced |-> stored.syncedCount,
                              errors |-> fetched - stored.syncedCount]),
                  !.totalCustomers = @ + stored.syncedCount]

RECURSIVE syncConfigs(_, _, _, _, _, _)
syncConfigs(run, configs, platform, failing, rejected, t) ==
  IF configs = <<>> THEN run
  ELSE syncConfigs(syncMerchant(run, Head(configs), platform, failing,
                                rejected, t),
                   Tail(configs), platform, failing, rejected, t)

\* success: errors.length === 0
success(errors) == Len(errors) = 0

\* syncAllCustomers(): test data cleared, every config synced, the result
\* returned; allCustomers and threw keep what each merchant's loop fetched
syncAllCustomersRun(db, cache, platform, failing, rejected, t) ==
  LET run == syncConfigs([db |-> clearTestData(db), cache |-> cache,
                          errors |-> <<>>, syncedCount |-> 0,
                          totalCustomers |-> 0,
                          customersByMerchant |-> EmptyObject,
                          allCustomers |-> EmptyObject, threw |-> {}],
                         Merchants, platform, failing, rejected, t)
  IN  [db |-> run.db, cache |-> run.cache,
       success |-> success(run.errors),
       stats |-> [totalCustomers |-> run.totalCustomers,
                  customersByMerchant |-> run.customersByMerchant],
       errors |-> run.errors,
       allCustomers |-> run.allCustomers, threw |-> run.threw]

MaxRuns == 2
ServerTicks == 3

\* the accounts of the platform in this specification: the USD account
\* holds nothing, x, or x and y; the CAD account nothing or its own x
ServerOptions(currency) ==
  IF currency = "USD"
  THEN {<<>>,
        <<UpstreamCustomer("x", "A", <<UpstreamCard("u1", ExpiredCode)>>)>>,
        <<UpstreamCustomer("x", "A", <<UpstreamCard("u1", ExpiredCode),
                                       UpstreamCard("u2", LaterCode)>>),
          UpstreamCustomer("y", "B", <<UpstreamCard("u3", SoonCode)>>)>>}
  ELSE {<<>>, <<UpstreamCustomer("z", "C", <<UpstreamCard("c1", SoonCode)>>)>>}

ServerFrame ==
  /\ UNCHANGED <<cardVars, pageVars, clientVars, popVars, printed>>
  /\ UNCHANGED <<syncLog, syncResponse>>
  /\ UNCHANGED <<cacheCalls, cacheSource>>
  /\ UNCHANGED sinceVars
  /\ UNCHANGED flowVars
  /\ UNCHANGED recoveryVars
  /\ UNCHANGED lockVars
  /\ UNCHANGED rateVars
  /\ UNCHANGED pagingVars

InitServer ==
  /\ now = CacheStart
  /\ expCode = NoCode
  /\ analysis = NotRun
  /\ loaderAnalysis = NotRun
  /\ dbCustomers = {}
  /\ dbCards = <<>>
  /\ response = NotLoaded
  /\ view = NotRendered
  /\ clientCustomer = NoClient
  /\ clientAnalysis = NoAnalysis
  /\ clientStatus = NotRun
  /\ population = <<>>
  /\ classified = NotRun
  /\ summary = NotRun
  /\ statused = NotRun
  /\ actionList = NotRun
  /\ upstream \in [{"USD", "CAD"} -> UNION {ServerOptions(m) : m \in {"USD", "CAD"}}]
  /\ \A m \in {"USD", "CAD"} : upstream[m] \in ServerOptions(m)
  /\ syncDb = SeededDb
  /\ syncLog = NoSync
  /\ syncResponse = NotLoaded
  /\ printed = NotRendered
  /\ SinceIdle
  /\ FlowIdle
  /\ RecoveryIdle
  /\ LockIdle
  /\ RateIdle
  /\ globalCache = {}
  /\ cacheCalls = NotRun
  /\ cacheSource = NotRun
  /\ lastSync = NotRun
  /\ runs = 0
  /\ PagingIdle

\* POST /api/sync-clover: new CloverSyncService().syncAllCustomers() in the
\* server process, whose globalCache outlives the request
PostSync ==
  /\ runs < MaxRuns
  /\ \E failing \in SUBSET {"USD", "CAD"}, rejected \in SUBSET {"x", "y"} :
       LET result == syncAllCustomersRun(syncDb, globalCache, upstream,
                                         failing, rejected, now)
       IN  /\ syncDb' = result.db
           /\ globalCache' = result.cache
           /\ lastSync' = [done |-> TRUE, at |-> now, platform |-> upstream,
                           failing |-> failing, rejected |-> rejected,
                           cacheBefore |-> globalCache, result |-> result]
  /\ runs' = runs + 1
  /\ UNCHANGED <<now, upstream>>
  /\ ServerFrame

\* customers and cards change on the platform
ServerPlatformChange ==
  /\ \E m \in {"USD", "CAD"} :
       \E u \in ServerOptions(m) :
         /\ u # upstream[m]
         /\ upstream' = [upstream EXCEPT ![m] = u]
  /\ UNCHANGED <<now, syncDb, globalCache, lastSync, runs>>
  /\ ServerFrame

\* POST /api/cache with action clear-all
ClearCache ==
  /\ globalCache # {}
  /\ globalCache' = {}
  /\ UNCHANGED <<now, upstream, syncDb, lastSync, runs>>
  /\ ServerFrame

ServerTick ==
  /\ now < CacheStart + ServerTicks
  /\ now' = now + 1
  /\ UNCHANGED <<upstream, syncDb, globalCache, lastSync, runs>>
  /\ ServerFrame

NextServer == PostSync \/ ServerPlatformChange \/ ClearCache \/ ServerTick

SpecServer == InitServer /\ [][NextServer]_vars

\* C28: every syncAllCustomers run stores the platform's customer data as
\* it is at the time of that run: what a merchant's loop passes to
\* storeCustomer is the merchant's list on the platform at that moment
C28_RunStoresCurrentData ==
  lastSync.done =>
    \A m \in DOMAIN lastSync.result.allCustomers :
       lastSync.result.allCustomers[m] = lastSync.platform[m]

\* what the code does give: the first run of a process stores the
\* platform's data
FirstRunStoresCurrentData == runs = 1 => C28_RunStoresCurrentData

\* the request for the first page of merchant m threw in the last run: the
\* platform failed and no fresh page was in the cache
FetchThrew(m) ==
  /\ m \in lastSync.failing
  /\ ~cacheGet(lastSync.cacheBefore, cacheKey(m, PageLimit, 0), lastSync.at).hit

Synced == {m \in {"USD", "CAD"} : ~FetchThrew(m)}

\* the positions in the fetched list of m whose customer the schema rejects
RejectedOf(m) ==
  {i \in 1 .. Len(lastSync.result.allCustomers[m]) :
     lastSync.result.allCustomers[m][i].id \in lastSync.rejected}

AcceptedOf(m) ==
  {i \in 1 .. Len(lastSync.result.allCustomers[m]) :
     lastSync.result.allCustomers[m][i].id \notin lastSync.rejected}

\* over the merchants that were synced
RejectedCount(m) == IF m \in Synced THEN Cardinality(RejectedOf(m)) ELSE 0
AcceptedCount(m) == IF m \in Synced THEN Cardinality(AcceptedOf(m)) ELSE 0

\* C30: a merchant whose fetch fails does not keep the other merchants from
\* being synced, a customer whose store fails does not keep the other
\* customers of the merchant from being stored; every failure is one entry
\* of errors, success is true iff errors is empty, and stats.totalCustomers
\* is the number of customers stored without error
C30_ErrorIsolation ==
  lastSync.done =>
    /\ DOMAIN lastSync.result.allCustomers = Synced
    /\ \A m \in Synced : \A i \in AcceptedOf(m) :
          \E row \in syncDb.customers :
             row.id = lastSync.result.allCustomers[m][i].id
    /\ Len(lastSync.result.errors)
         = Cardinality({"USD", "CAD"} \ Synced)
             + RejectedCount("USD") + RejectedCount("CAD")
    /\ lastSync.result.success <=> (lastSync.result.errors = <<>>)
    /\ lastSync.result.stats.totalCustomers
         = AcceptedCount("USD") + AcceptedCount("CAD")

\* the USD fetch threw and the CAD account was synced all the same: z was
\* stored and counted, and the one failure is the one entry of errors
C30_Witness ==
  /\ lastSync.done
  /\ FetchThrew("USD")
  /\ Len(lastSync.platform["USD"]) = 2
  /\ \E row \in syncDb.customers : row.id = "z"
  /\ Len(lastSync.result.errors) = 1
  /\ ~lastSync.result.success
  /\ lastSync.result.stats.totalCustomers = 1

\* x was rejected and y, after it in the same account, was stored
StoreFailureIsolated ==
  /\ lastSync.done
  /\ lastSync.rejected = {"x"}
  /\ Synced = {"USD", "CAD"}
  /\ Len(lastSync.result.allCustomers["USD"]) = 2
  /\ \E row \in syncDb.customers : row.id = "y"
  /\ Len(lastSync.result.errors) = 1
  /\ lastSync.result.stats.totalCustomers
       = 1 + Len(lastSync.result.allCustomers["CAD"])

-----------------------------------------------------------------------------
\* The page loop of one merchant, batch by batch

MaxUpstream == 201
MaxLoops == 2

\* an account of n customers, named by their position on the platform
UpstreamList(n) == [i \in 1 .. n |-> i]

PagingFrame ==
  /\ UNCHANGED earlierVars
  /\ UNCHANGED <<cacheCalls, cacheSource>>
  /\ UNCHANGED sinceVars
  /\ UNCHANGED flowVars
  /\ UNCHANGED recoveryVars
  /\ UNCHANGED lockVars
  /\ UNCHANGED rateVars
  /\ UNCHANGED serverVars

InitPaging ==
  /\ now = CacheStart
  /\ EarlierIdle
  /\ SinceIdle
  /\ FlowIdle
  /\ RecoveryIdle
  /\ LockIdle
  /\ RateIdle
  /\ globalCache = {}
  /\ cacheCalls = NotRun
  /\ cacheSource = NotRun
  /\ ServerIdle
  /\ \E n \in 0 .. MaxUpstream, currency \in {"USD", "CAD"} :
       paging = [currency |-> currency, list |-> UpstreamList(n),
                 loop |-> NewLoop, threw |-> FALSE, round |-> 1]

InPageLoop == paging.loop.hasMore /\ ~paging.threw

\* one turn of while (hasMore): the awaited page arrives, or the request
\* throws and the loop is left for the catch of the merchant
FetchBatch ==
  /\ InPageLoop
  /\ \E failing \in {{}, {paging.currency}} :
       LET page == getCustomersPaginated(globalCache, paging.currency,
                                         paging.list, PageLimit,
                                         paging.loop.offset, failing, now)
       IN  /\ globalCache' = page.cache
           /\ paging' = IF page.threw THEN [paging EXCEPT !.threw = TRUE]
                        ELSE [paging EXCEPT !.loop = pageStep(@, page.data)]
  /\ PagingFrame

\* the next syncAllCustomers run of the process reaches the merchant
NextRun ==
  /\ ~InPageLoop
  /\ paging.round < MaxLoops
  /\ paging' = [paging EXCEPT !.loop = NewLoop, !.threw = FALSE,
                              !.round = @ + 1]
  /\ UNCHANGED globalCache
  /\ PagingFrame

NextPaging == FetchBatch \/ NextRun

\* an awaited request settles
SpecPaging == InitPaging /\ [][NextPaging]_vars /\ WF_vars(FetchBatch)

LoopEnded == ~paging.loop.hasMore

\* every upstream customer once, in upstream order, and no batch after the
\* first one that is empty or shorter than the limit
CollectedAll ==
  /\ paging.loop.allCustomers = paging.list
  /\ paging.loop.batches = (Len(paging.list) \div PageLimit) + 1

\* C29: for an unchanging upstream list the page loop (limit 100, offset
\* advancing by 100) terminates at the first page that is empty or shorter
\* than the limit, and the collected list then holds every upstream customer
\* exactly once, in upstream order
C29_PaginationComplete ==
  /\ [](LoopEnded => CollectedAll)
  /\ (InPageLoop ~> ~InPageLoop)

\* an account of exactly two full pages was collected with a third, empty
\* batch, in the second run of the process
C29_Witness ==
  /\ LoopEnded
  /\ Len(paging.list) = 2 * PageLimit
  /\ paging.loop.batches = 3
  /\ paging.round = 2

====
